---- MODULE Spec2Model ----
(***************************************************************************)
(* A model of one authority of sui_core (src/sui_core/src/authority.rs):   *)
(* the lock phase (handle_order) and the execute phase                     *)
(* (handle_confirmation_order, execute_order, transfer), run by concurrent *)
(* request handlers against one persistent store.  A handler takes one     *)
(* step per access to the store.  The persistent store                     *)
(* (authority_store.rs), the temporary store (temporary_store.rs), the gas *)
(* module, the message types and the Move adapter are not part of the      *)
(* sources at hand; they are modelled from their documented contracts.     *)
(***************************************************************************)
EXTENDS Integers, Sequences, FiniteSets, TLC

(***************************************************************************)
(* Bounds of the model.                                                    *)
(***************************************************************************)
\* Balance of the gas coin at genesis.  Every execution charges at least one
\* unit, so it also bounds the number of executions and the versions.
InitBalance == 2

\* The largest number of other primaries in the committee of the header getter.
MaxPeers == 2

\* The largest value of the integers of the transaction lookup (u64 in the
\* source, narrowed so that the saturating operations reach their limit).
U64_MAX == 4
\* The number of requests the clients send to the authority.
MaxCalls == 3

(***************************************************************************)
(* Program constants.                                                      *)
(***************************************************************************)
\* gas::MIN_OBJ_TRANSFER_GAS, charged for a failed transfer.
MIN_OBJ_TRANSFER_GAS == 1
\* SequenceNumber::max(), the largest sequence number an order may name.
SEQUENCE_NUMBER_MAX == 2147483647

\* Option::None.
None == [none |-> TRUE]
\* TransactionDigest::genesis(), the sentinel digest of genesis objects.
GENESIS == [genesis |-> TRUE]
\* OBJECT_DIGEST_DELETED, the digest of a tombstone ObjectRef.
OBJECT_DIGEST_DELETED == [deleted |-> TRUE]

\* The name of this authority (AuthorityState::name).
AuthorityName == "authority"
\* Account addresses.
Addresses == {"alice", "bob"}
\* Object ids: A, B and C are Move objects, G is the gas coin, P is a
\* package, R is a read-only Move object.  An object id is also an address
\* (an object may own an object).
ObjectIDs == {"A", "B", "C", "G", "P", "R"}
\* The concurrent request handlers of the authority.
Threads == {"t1", "t2"}

(***************************************************************************)
(* Objects and object references.                                          *)
(***************************************************************************)
\* Object: id, version, owner, read-only marker, package or Move value,
\* the balance of a gas coin, the size that prices a transfer, and the
\* digest of the transaction that wrote it.
Obj(id, version, owner, read_only, is_package, balance, size, prev) ==
    [id |-> id, version |-> version, owner |-> owner, read_only |-> read_only,
     is_package |-> is_package, balance |-> balance, size |-> size,
     previous_transaction |-> prev]

\* Object::digest: a hash of the whole content of the object.  The hash is
\* modelled as injective: the content itself without the id and the version,
\* which the reference carries next to the digest.
digest(object) ==
    [owner |-> object.owner, read_only |-> object.read_only,
     is_package |-> object.is_package, balance |-> object.balance,
     size |-> object.size,
     previous_transaction |-> object.previous_transaction]

\* Object::to_object_reference: (id, version, digest).
to_object_reference(object) == <<object.id, object.version, digest(object)>>

\* Object::is_read_only.
is_read_only(object) == object.read_only

\* InputObjectKind and its object_id().
MovePackage(id) == [tag |-> "MovePackage", id |-> id]
MoveObject(ref) == [tag |-> "MoveObject", ref |-> ref]
kind_object_id(kind) == IF kind.tag = "MovePackage" THEN kind.id ELSE kind.ref[1]

\* The objects of the genesis state.
GenesisObjects ==
    [id \in ObjectIDs |->
        CASE id = "A" -> Obj("A", 0, "alice", FALSE, FALSE, 0, 2, GENESIS)
          [] id = "B" -> Obj("B", 0, "A", FALSE, FALSE, 0, 1, GENESIS)
          [] id = "C" -> Obj("C", 0, "alice", FALSE, FALSE, 0, 1, GENESIS)
          [] id = "G" -> Obj("G", 0, "alice", FALSE, FALSE, InitBalance, 1, GENESIS)
          [] id = "P" -> Obj("P", 0, "alice", TRUE, TRUE, 0, 1, GENESIS)
          [] id = "R" -> Obj("R", 0, "bob", TRUE, FALSE, 0, 2, GENESIS)]

(***************************************************************************)
(* Orders, signed orders, certificates.                                    *)
(***************************************************************************)
\* Order: its data (sender, kind, recipient of a transfer, function of a
\* call, declared inputs, gas payment) and the address whose key signed it.
OrderData(sender, kind, recipient, function, inputs, gas_payment, gas_budget) ==
    [sender |-> sender, kind |-> kind, recipient |-> recipient, function |-> function,
     inputs |-> inputs, gas_payment |-> gas_payment, gas_budget |-> gas_budget]

MkOrder(data, signer) == [data |-> data, signature |-> signer]

\* Order::digest: the transaction digest, a hash of the order's data
\* (injective, so the data itself).
order_digest(order) == order.data

\* Order::check_signature: the signature verifies against the declared sender.
check_signature(order) == order.signature = order.data.sender

\* Order::input_objects, sender_address, gas_payment_object_ref.
input_objects(order) == order.data.inputs
sender_address(order) == order.data.sender
gas_payment_object_ref(order) == order.data.gas_payment

\* SignedOrder::new(order, name, secret): the order and this authority's
\* (deterministic) signature over it.
SignedOrder_new(order, name) == [order |-> order, authority |-> name]

\* CertifiedOrder: an order and a quorum of signatures, which either
\* verifies against the committee or does not.
MkCertificate(order, quorum_ok) == [order |-> order, quorum_ok |-> quorum_ok]
certificate_check(certificate) == certificate.quorum_ok

\* Results: Ok(value) and Err(error).
Ok(v) == [ok |-> TRUE, value |-> v]
Err(e) == [ok |-> FALSE, error |-> e]

\* Lookup in a table whose key may be missing.
Get(table, key) == IF key \in DOMAIN table THEN table[key] ELSE None

\* A table with one more entry.
Put(table, key, value) ==
    [k \in DOMAIN table \cup {key} |-> IF k = key THEN value ELSE table[k]]

(***************************************************************************)
(* Errors and execution status.                                            *)
(***************************************************************************)
Unit == [tag |-> "Unit"]
Error(tag) == [tag |-> tag]
ObjectError(tag, object_id) == [tag |-> tag, object_id |-> object_id]
\* A panic of the handler's task: the call never returns a value.
Panic == [ok |-> FALSE, error |-> [tag |-> "panic"]]

\* ExecutionStatus::Success{gas_used} and ExecutionStatus::Failure{gas_used, error}.
Success(gas_used) == [tag |-> "Success", gas_used |-> gas_used, error |-> None]
Failure(gas_used, error) == [tag |-> "Failure", gas_used |-> gas_used, error |-> error]

(***************************************************************************)
(* The gas module.                                                         *)
(***************************************************************************)
\* gas::calculate_object_transfer_cost: a fixed function of the object size.
calculate_object_transfer_cost(object) == object.size

\* gas::check_gas_requirement: the gas object must cover the minimum cost
\* of a transfer, or the budget of a call or a publish.
check_gas_requirement(order, gas_object) ==
    LET required == IF order.data.kind = "Transfer" THEN MIN_OBJ_TRANSFER_GAS
                    ELSE order.data.gas_budget
    IN  IF gas_object.balance >= required THEN Ok(Unit)
        ELSE Err(Error("InsufficientGas"))

\* gas::deduct_gas: the balance less the amount, in a new version of the coin.
deduct_gas(gas_object, amount) ==
    [gas_object EXCEPT !.balance = gas_object.balance - amount,
                       !.version = gas_object.version + 1]

\* gas::try_deduct_gas: deduct_gas, or InsufficientGas when the balance is short.
try_deduct_gas(gas_object, amount) ==
    IF gas_object.balance < amount THEN Err(Error("InsufficientGas"))
    ELSE Ok(deduct_gas(gas_object, amount))

\* Object::transfer: the new owner, in a new version of the object.
object_transfer(object, recipient) ==
    [object EXCEPT !.owner = recipient, !.version = object.version + 1]

(***************************************************************************)
(* The temporary store of one execution.                                   *)
(***************************************************************************)
\* The ids of a sequence of objects.
IdsOf(objs) == {objs[i].id : i \in DOMAIN objs}

\* AuthorityTemporaryStore::new: seeded with the resolved inputs; the active
\* inputs are the references of the inputs that are not read-only.
TemporaryStore_new(inputs, tx_digest) ==
    [objects |-> [id \in IdsOf(inputs) |->
                    inputs[CHOOSE i \in DOMAIN inputs : inputs[i].id = id]],
     active_inputs |-> {to_object_reference(inputs[i]) :
                           i \in {j \in DOMAIN inputs : ~is_read_only(inputs[j])}},
     written |-> << >>,
     deleted |-> << >>,
     tx_digest |-> tx_digest]

\* write_object: buffers the object under its id and stamps it with the
\* digest of the executing transaction.
write_object(store, object) ==
    [store EXCEPT !.written =
        Put(store.written, object.id,
            [object EXCEPT !.previous_transaction = store.tx_digest])]

\* delete_object: buffers the deletion of an input object, at its version.
delete_object(store, id) ==
    [store EXCEPT !.deleted = Put(store.deleted, id, store.objects[id].version)]

\* reset: discards every buffered write and deletion.
reset(store) == [store EXCEPT !.written = << >>, !.deleted = << >>]

\* written: the final write set, by object id.
written(store) == store.written

\* The ids of the active (mutable) inputs that are neither written nor deleted.
UnmutatedInputs(store) ==
    {ref[1] : ref \in {r \in store.active_inputs :
                          /\ r[1] \notin DOMAIN store.written
                          /\ r[1] \notin DOMAIN store.deleted}}

\* ensure_active_inputs_mutated: every active input that the execution
\* neither wrote nor deleted is written, content unchanged, at its next version.
ensure_active_inputs_mutated(store) ==
    [store EXCEPT !.written =
        [id \in DOMAIN store.written \cup UnmutatedInputs(store) |->
            IF id \in DOMAIN store.written THEN store.written[id]
            ELSE [store.objects[id] EXCEPT
                    !.version = store.objects[id].version + 1]]]

\* patch_unwrapped_object_version: an unwrapped object moves past the
\* version of its tombstone.
patch_unwrapped_object_version(store, unwrapped_object_ids) ==
    [store EXCEPT !.written =
        [id \in DOMAIN store.written |->
            IF id \in unwrapped_object_ids
            THEN [store.written[id] EXCEPT !.version = store.written[id].version + 1]
            ELSE store.written[id]]]

\* to_signed_effects: this authority's signature over the transaction
\* digest, the dependencies, the status and the new reference of the gas object.
to_signed_effects(store, name, transaction_digest, dependencies, status, gas_object_id) ==
    [transaction_digest |-> transaction_digest,
     dependencies |-> dependencies,
     status |-> status,
     gas_object |-> IF gas_object_id \in DOMAIN store.written
                    THEN to_object_reference(store.written[gas_object_id])
                    ELSE None,
     authority |-> name]

(***************************************************************************)
(* AuthorityState: the checks of the inputs of an order.                   *)
(***************************************************************************)
\* InputObjectKind::object_not_found_error.
object_not_found_error(object_kind) ==
    ObjectError("ObjectNotFound", kind_object_id(object_kind))

\* A check_one_lock without the check of the sequence number.
check_one_lock_without_sequence(order, object_kind, object, mutable_object_addresses) ==
    IF object_kind.tag = "MovePackage"
    THEN IF object.is_package THEN Ok(Unit)
         ELSE Err(ObjectError("MoveObjectAsPackage", object_kind.id))
    ELSE LET object_id == object_kind.ref[1]
             sequence_number == object_kind.ref[2]
             object_digest == object_kind.ref[3]
         IN  IF ~(sequence_number <= SEQUENCE_NUMBER_MAX)
             THEN Err(Error("InvalidSequenceNumber"))
             ELSE IF digest(object) # object_digest
             THEN Err([tag |-> "InvalidObjectDigest", object_id |-> object_id,
                       expected_digest |-> object_digest])
             ELSE IF is_read_only(object)
             THEN IF object_id # gas_payment_object_ref(order)[1] THEN Ok(Unit)
                  ELSE Err(Error("InsufficientGas"))
             ELSE IF ~(\/ sender_address(order) = object.owner
                       \/ object.owner \in mutable_object_addresses)
             THEN Err(Error("IncorrectSigner"))
             ELSE IF object_id = gas_payment_object_ref(order)[1]
             THEN check_gas_requirement(order, object)
             ELSE Ok(Unit)

\* A check_one_lock without the check of the owner of a mutable object.
check_one_lock_without_owner(order, object_kind, object, mutable_object_addresses) ==
    IF object_kind.tag = "MovePackage"
    THEN IF object.is_package THEN Ok(Unit)
         ELSE Err(ObjectError("MoveObjectAsPackage", object_kind.id))
    ELSE LET object_id == object_kind.ref[1]
             sequence_number == object_kind.ref[2]
             object_digest == object_kind.ref[3]
         IN  IF ~(sequence_number <= SEQUENCE_NUMBER_MAX)
             THEN Err(Error("InvalidSequenceNumber"))
             ELSE IF object.version # sequence_number
             THEN Err([tag |-> "UnexpectedSequenceNumber", object_id |-> object_id,
                       expected_sequence |-> object.version])
             ELSE IF digest(object) # object_digest
             THEN Err([tag |-> "InvalidObjectDigest", object_id |-> object_id,
                       expected_digest |-> object_digest])
             ELSE IF is_read_only(object)
             THEN IF object_id # gas_payment_object_ref(order)[1] THEN Ok(Unit)
                  ELSE Err(Error("InsufficientGas"))
             ELSE IF object_id = gas_payment_object_ref(order)[1]
             THEN check_gas_requirement(order, object)
             ELSE Ok(Unit)

\* check_one_lock: checks one stored object against the input that names it.
\* A check_one_lock that compares the digest before the sequence number.
check_one_lock_digest_first(order, object_kind, object, mutable_object_addresses) ==
    IF object_kind.tag = "MovePackage"
    THEN IF object.is_package THEN Ok(Unit)
         ELSE Err(ObjectError("MoveObjectAsPackage", object_kind.id))
    ELSE LET object_id == object_kind.ref[1]
             sequence_number == object_kind.ref[2]
             object_digest == object_kind.ref[3]
         IN  IF ~(sequence_number <= SEQUENCE_NUMBER_MAX)
             THEN Err(Error("InvalidSequenceNumber"))
             ELSE IF digest(object) # object_digest
             THEN Err([tag |-> "InvalidObjectDigest", object_id |-> object_id,
                       expected_digest |-> object_digest])
             ELSE IF object.version # sequence_number
             THEN Err([tag |-> "UnexpectedSequenceNumber", object_id |-> object_id,
                       expected_sequence |-> object.version])
             ELSE IF is_read_only(object)
             THEN IF object_id # gas_payment_object_ref(order)[1] THEN Ok(Unit)
                  ELSE Err(Error("InsufficientGas"))
             ELSE IF ~(\/ sender_address(order) = object.owner
                       \/ object.owner \in mutable_object_addresses)
             THEN Err(Error("IncorrectSigner"))
             ELSE IF object_id = gas_payment_object_ref(order)[1]
             THEN check_gas_requirement(order, object)
             ELSE Ok(Unit)

\* A check_one_lock that checks the owner of every Move object, read-only
\* or not, before it looks at the read-only marker.
check_one_lock_owner_of_read_only(order, object_kind, object, mutable_object_addresses) ==
    IF object_kind.tag = "MovePackage"
    THEN IF object.is_package THEN Ok(Unit)
         ELSE Err(ObjectError("MoveObjectAsPackage", object_kind.id))
    ELSE LET object_id == object_kind.ref[1]
             sequence_number == object_kind.ref[2]
             object_digest == object_kind.ref[3]
         IN  IF ~(sequence_number <= SEQUENCE_NUMBER_MAX)
             THEN Err(Error("InvalidSequenceNumber"))
             ELSE IF object.version # sequence_number
             THEN Err([tag |-> "UnexpectedSequenceNumber", object_id |-> object_id,
                       expected_sequence |-> object.version])
             ELSE IF digest(object) # object_digest
             THEN Err([tag |-> "InvalidObjectDigest", object_id |-> object_id,
                       expected_digest |-> object_digest])
             ELSE IF ~(\/ sender_address(order) = object.owner
                       \/ object.owner \in mutable_object_addresses)
             THEN Err(Error("IncorrectSigner"))
             ELSE IF is_read_only(object)
             THEN IF object_id # gas_payment_object_ref(order)[1] THEN Ok(Unit)
                  ELSE Err(Error("InsufficientGas"))
             ELSE IF object_id = gas_payment_object_ref(order)[1]
             THEN check_gas_requirement(order, object)
             ELSE Ok(Unit)

check_one_lock(order, object_kind, object, mutable_object_addresses) ==
    IF object_kind.tag = "MovePackage"
    THEN IF object.is_package THEN Ok(Unit)
         ELSE Err(ObjectError("MoveObjectAsPackage", object_kind.id))
    ELSE LET object_id == object_kind.ref[1]
             sequence_number == object_kind.ref[2]
             object_digest == object_kind.ref[3]
         IN  IF ~(sequence_number <= SEQUENCE_NUMBER_MAX)
             THEN Err(Error("InvalidSequenceNumber"))
             ELSE IF object.version # sequence_number
             THEN Err([tag |-> "UnexpectedSequenceNumber", object_id |-> object_id,
                       expected_sequence |-> object.version])
             ELSE IF digest(object) # object_digest
             THEN Err([tag |-> "InvalidObjectDigest", object_id |-> object_id,
                       expected_digest |-> object_digest])
             ELSE IF is_read_only(object)
             THEN IF object_id # gas_payment_object_ref(order)[1] THEN Ok(Unit)
                  ELSE Err(Error("InsufficientGas"))
             ELSE IF ~(\/ sender_address(order) = object.owner
                       \/ object.owner \in mutable_object_addresses)
             THEN Err(Error("IncorrectSigner"))
             ELSE IF object_id = gas_payment_object_ref(order)[1]
             THEN check_gas_requirement(order, object)
             ELSE Ok(Unit)

\* A check_locks that stops at the first input that is missing or fails its
\* check, and reports that one error.
check_locks_first_error(order, db) ==
    LET inputs == input_objects(order)
        ids == [i \in DOMAIN inputs |-> kind_object_id(inputs[i])]
        objs == [i \in DOMAIN inputs |-> Get(db, ids[i])]
        mutable_object_addresses ==
            {objs[i].id : i \in {j \in DOMAIN inputs :
                                    objs[j] # None /\ ~is_read_only(objs[j])}}
        checked == [i \in DOMAIN inputs |->
                      [kind |-> inputs[i], object |-> objs[i],
                       result |-> IF objs[i] = None
                                  THEN Err(object_not_found_error(inputs[i]))
                                  ELSE check_one_lock(order, inputs[i], objs[i],
                                                      mutable_object_addresses)]]
        bad == SelectSeq(checked, LAMBDA c : ~c.result.ok)
        good == SelectSeq(checked, LAMBDA c : c.result.ok)
        all_objects == [i \in DOMAIN good |->
                          [kind |-> good[i].kind, object |-> good[i].object]]
    IN  IF inputs = << >> THEN Err(Error("ObjectInputArityViolation"))
        ELSE IF Cardinality({ids[i] : i \in DOMAIN inputs}) # Len(inputs)
        THEN Err(Error("DuplicateObjectRefInput"))
        ELSE IF bad # << >>
        THEN Err([tag |-> "LockErrors", errors |-> <<bad[1].result.error>>])
        ELSE IF all_objects = << >> THEN Err(Error("ObjectInputArityViolation"))
        ELSE Ok(all_objects)

\* A check_locks that resolves and checks the inputs first, and looks for
\* an empty or repeated input only when all of them are good.
check_locks_resolving_first(order, db) ==
    LET inputs == input_objects(order)
        ids == [i \in DOMAIN inputs |-> kind_object_id(inputs[i])]
        objs == [i \in DOMAIN inputs |-> Get(db, ids[i])]
        mutable_object_addresses ==
            {objs[i].id : i \in {j \in DOMAIN inputs :
                                    objs[j] # None /\ ~is_read_only(objs[j])}}
        checked == [i \in DOMAIN inputs |->
                      [kind |-> inputs[i], object |-> objs[i],
                       result |-> IF objs[i] = None
                                  THEN Err(object_not_found_error(inputs[i]))
                                  ELSE check_one_lock(order, inputs[i], objs[i],
                                                      mutable_object_addresses)]]
        bad == SelectSeq(checked, LAMBDA c : ~c.result.ok)
        good == SelectSeq(checked, LAMBDA c : c.result.ok)
        errors == [i \in DOMAIN bad |-> bad[i].result.error]
        all_objects == [i \in DOMAIN good |->
                          [kind |-> good[i].kind, object |-> good[i].object]]
    IN  IF errors # << >>
        THEN Err([tag |-> "LockErrors", errors |-> errors])
        ELSE IF inputs = << >> THEN Err(Error("ObjectInputArityViolation"))
        ELSE IF Cardinality({ids[i] : i \in DOMAIN inputs}) # Len(inputs)
        THEN Err(Error("DuplicateObjectRefInput"))
        ELSE Ok(all_objects)

\* check_locks: resolves every input of the order in the store (db is the
\* object table) and checks it; all the errors are collected.
check_locks(order, db) ==
    LET inputs == input_objects(order)
        ids == [i \in DOMAIN inputs |-> kind_object_id(inputs[i])]
        \* get_objects
        objs == [i \in DOMAIN inputs |-> Get(db, ids[i])]
        mutable_object_addresses ==
            {objs[i].id : i \in {j \in DOMAIN inputs :
                                    objs[j] # None /\ ~is_read_only(objs[j])}}
        checked == [i \in DOMAIN inputs |->
                      [kind |-> inputs[i], object |-> objs[i],
                       result |-> IF objs[i] = None
                                  THEN Err(object_not_found_error(inputs[i]))
                                  ELSE check_one_lock(order, inputs[i], objs[i],
                                                      mutable_object_addresses)]]
        bad == SelectSeq(checked, LAMBDA c : ~c.result.ok)
        good == SelectSeq(checked, LAMBDA c : c.result.ok)
        errors == [i \in DOMAIN bad |-> bad[i].result.error]
        all_objects == [i \in DOMAIN good |->
                          [kind |-> good[i].kind, object |-> good[i].object]]
    IN  IF inputs = << >> THEN Err(Error("ObjectInputArityViolation"))
        ELSE IF Cardinality({ids[i] : i \in DOMAIN inputs}) # Len(inputs)
        THEN Err(Error("DuplicateObjectRefInput"))
        ELSE IF errors # << >>
        THEN Err([tag |-> "LockErrors", errors |-> errors])
        ELSE IF all_objects = << >> THEN Err(Error("ObjectInputArityViolation"))
        ELSE Ok(all_objects)

\* The references of all the inputs that are Move objects, read-only or not.
mutable_objects_of_move_objects(all_objects) ==
    LET kept == SelectSeq(all_objects, LAMBDA e : e.kind.tag = "MoveObject")
    IN  [i \in DOMAIN kept |-> kept[i].kind.ref]

\* handle_order, lines 202-216: the references of the inputs that are Move
\* objects and not read-only.
mutable_objects_of(all_objects) ==
    LET kept == SelectSeq(all_objects,
                    LAMBDA e : e.kind.tag = "MoveObject" /\ ~is_read_only(e.object))
    IN  [i \in DOMAIN kept |-> kept[i].kind.ref]

(***************************************************************************)
(* AuthorityState: execution.                                              *)
(***************************************************************************)
\* `!n` on a usize is the bitwise complement, 2^64 - 1 - n; it is kept as
\* its residue -n - 1 modulo 2^64, which is exact for the comparison with a
\* small number.
usize_not(n) == 0 - n - 1

\* A transfer that buffers the object with its new owner before it tries
\* to deduct the gas.
transfer_writing_before_gas(temporary_store, inputs, recipient, gas_object) ==
    IF usize_not(Len(inputs)) = 1
    THEN [store |-> temporary_store,
          result |-> Ok(Failure(MIN_OBJ_TRANSFER_GAS, Error("ObjectInputArityViolation")))]
    ELSE IF inputs = << >>
    THEN [store |-> temporary_store, result |-> Panic]
    ELSE LET output_object == inputs[Len(inputs)]
             gas_used == calculate_object_transfer_cost(output_object)
             deducted == try_deduct_gas(gas_object, gas_used)
             moved == write_object(temporary_store,
                                   object_transfer(output_object, recipient))
         IN  IF ~deducted.ok
             THEN [store |-> moved,
                   result |-> Ok(Failure(MIN_OBJ_TRANSFER_GAS, deducted.error))]
             ELSE IF is_read_only(output_object)
             THEN [store |-> write_object(temporary_store, deducted.value),
                   result |-> Ok(Failure(MIN_OBJ_TRANSFER_GAS,
                                         Error("CannotTransferReadOnlyObject")))]
             ELSE [store |-> write_object(moved, deducted.value),
                   result |-> Ok(Success(gas_used))]

\* A transfer that never looks at the read-only marker of the object.
transfer_without_read_only_check(temporary_store, inputs, recipient, gas_object) ==
    IF usize_not(Len(inputs)) = 1
    THEN [store |-> temporary_store,
          result |-> Ok(Failure(MIN_OBJ_TRANSFER_GAS, Error("ObjectInputArityViolation")))]
    ELSE IF inputs = << >>
    THEN [store |-> temporary_store, result |-> Panic]
    ELSE LET output_object == inputs[Len(inputs)]
             gas_used == calculate_object_transfer_cost(output_object)
             deducted == try_deduct_gas(gas_object, gas_used)
         IN  IF ~deducted.ok
             THEN [store |-> temporary_store,
                   result |-> Ok(Failure(MIN_OBJ_TRANSFER_GAS, deducted.error))]
             ELSE [store |-> write_object(write_object(temporary_store, deducted.value),
                                          object_transfer(output_object, recipient)),
                   result |-> Ok(Success(gas_used))]

\* transfer: the outcome is the temporary store and the status, or a panic.
transfer(temporary_store, inputs, recipient, gas_object) ==
    IF usize_not(Len(inputs)) = 1
    THEN [store |-> temporary_store,
          result |-> Ok(Failure(MIN_OBJ_TRANSFER_GAS, Error("ObjectInputArityViolation")))]
    ELSE IF inputs = << >>
    THEN [store |-> temporary_store, result |-> Panic]
    ELSE LET output_object == inputs[Len(inputs)]
             gas_used == calculate_object_transfer_cost(output_object)
             deducted == try_deduct_gas(gas_object, gas_used)
         IN  IF ~deducted.ok
             THEN [store |-> temporary_store,
                   result |-> Ok(Failure(MIN_OBJ_TRANSFER_GAS, deducted.error))]
             ELSE LET paid == write_object(temporary_store, deducted.value)
                  IN  IF is_read_only(output_object)
                      THEN [store |-> paid,
                            result |-> Ok(Failure(MIN_OBJ_TRANSFER_GAS,
                                                  Error("CannotTransferReadOnlyObject")))]
                      ELSE [store |-> write_object(paid,
                                        object_transfer(output_object, recipient)),
                            result |-> Ok(Success(gas_used))]

(***************************************************************************)
(* The Move adapter.  What a call does is a fixed function of the order    *)
(* and of its inputs: the function named by the order decides the objects  *)
(* it writes and deletes and whether it aborts.                            *)
(***************************************************************************)
\* The functions of package P.
\*   "remove"  deletes its last object argument and leaves the others alone
\*   "abort"   writes all its object arguments and then aborts
\*   "missing" is not a function of the package: the adapter returns an error
Functions == {"remove", "abort", "missing"}

\* The price of a call that runs to its end: one unit per object argument.
adapter_gas_cost(object_args) == Len(object_args)

\* The ids the function writes and deletes among its object arguments.
adapter_mutated(function, object_args) ==
    IF function = "abort" THEN IdsOf(object_args) ELSE {}
adapter_deleted(function, object_args) ==
    IF function = "remove" THEN {object_args[Len(object_args)].id} ELSE {}

\* The writes and deletions the adapter buffers while it runs.
adapter_writes(temporary_store, function, object_args, gas_object, gas_used) ==
    LET RECURSIVE apply(_, _)
        apply(store, i) ==
            IF i > Len(object_args) THEN store
            ELSE LET object == object_args[i]
                 IN  IF object.id \in adapter_mutated(function, object_args)
                     THEN apply(write_object(store,
                                  [object EXCEPT !.version = object.version + 1]), i + 1)
                     ELSE IF object.id \in adapter_deleted(function, object_args)
                     THEN apply(delete_object(store, object.id), i + 1)
                     ELSE apply(store, i + 1)
    IN  apply(write_object(temporary_store, deduct_gas(gas_object, gas_used)), 1)

\* adapter::execute: an error, a Failure status (the budget does not cover
\* the call, or the function aborts after it buffered its writes), or Success.
adapter_execute(temporary_store, package, function, object_args, gas_budget, gas_object) ==
    IF function = "missing"
    THEN [store |-> temporary_store, result |-> Err(Error("FunctionNotFound"))]
    ELSE IF gas_budget < adapter_gas_cost(object_args)
    THEN [store |-> temporary_store,
          result |-> Ok(Failure(gas_budget, Error("OutOfGas")))]
    ELSE IF function = "abort"
    THEN [store |-> adapter_writes(temporary_store, function, object_args, gas_object,
                                   MIN_OBJ_TRANSFER_GAS),
          result |-> Ok(Failure(MIN_OBJ_TRANSFER_GAS, Error("MoveAbort")))]
    ELSE [store |-> adapter_writes(temporary_store, function, object_args, gas_object,
                                   adapter_gas_cost(object_args)),
          result |-> Ok(Success(adapter_gas_cost(object_args)))]

\* The id of the package a Publish creates.
PublishedID == "Q"

\* adapter::publish: stores the modules as a package object owned by the
\* sender, for the whole budget.
adapter_publish(temporary_store, sender, gas_budget, gas_object) ==
    IF gas_budget < MIN_OBJ_TRANSFER_GAS
    THEN [store |-> temporary_store,
          result |-> Ok(Failure(gas_budget, Error("OutOfGas")))]
    ELSE [store |-> write_object(
                      write_object(temporary_store, deduct_gas(gas_object, gas_budget)),
                      Obj(PublishedID, 0, sender, TRUE, TRUE, 0, 1, GENESIS)),
          result |-> Ok(Success(gas_budget))]

\* An execute_order without the final ensure_active_inputs_mutated.
execute_order_without_ensure(order, inputs, tx_digest) ==
    LET temporary_store == TemporaryStore_new(inputs, tx_digest)
        gas_object == inputs[Len(inputs)]
        rest == SubSeq(inputs, 1, Len(inputs) - 1)
        ran == CASE order.data.kind = "Transfer" ->
                      transfer(temporary_store, rest, order.data.recipient, gas_object)
                 [] order.data.kind = "Call" ->
                      IF rest = << >>
                      THEN [store |-> temporary_store, result |-> Panic]
                      ELSE adapter_execute(temporary_store, rest[Len(rest)],
                                           order.data.function,
                                           SubSeq(rest, 1, Len(rest) - 1),
                                           order.data.gas_budget, gas_object)
                 [] order.data.kind = "Publish" ->
                      adapter_publish(temporary_store, sender_address(order),
                                      order.data.gas_budget, gas_object)
    IN  IF ~ran.result.ok THEN ran
        ELSE LET status == ran.result.value
             IN  IF status.tag = "Failure"
                 THEN IF gas_object.balance < status.gas_used
                      THEN [store |-> ran.store, result |-> Panic]
                      ELSE [store |-> write_object(reset(ran.store),
                                                   deduct_gas(gas_object, status.gas_used)),
                            result |-> Ok(status)]
                 ELSE [store |-> ran.store, result |-> Ok(status)]

\* An execute_order that forgets to reset the temporary store after a Failure.
execute_order_without_reset(order, inputs, tx_digest) ==
    LET temporary_store == TemporaryStore_new(inputs, tx_digest)
        gas_object == inputs[Len(inputs)]
        rest == SubSeq(inputs, 1, Len(inputs) - 1)
        ran == CASE order.data.kind = "Transfer" ->
                      transfer(temporary_store, rest, order.data.recipient, gas_object)
                 [] order.data.kind = "Call" ->
                      IF rest = << >>
                      THEN [store |-> temporary_store, result |-> Panic]
                      ELSE adapter_execute(temporary_store, rest[Len(rest)],
                                           order.data.function,
                                           SubSeq(rest, 1, Len(rest) - 1),
                                           order.data.gas_budget, gas_object)
                 [] order.data.kind = "Publish" ->
                      adapter_publish(temporary_store, sender_address(order),
                                      order.data.gas_budget, gas_object)
    IN  IF ~ran.result.ok THEN ran
        ELSE LET status == ran.result.value
             IN  IF status.tag = "Failure"
                 THEN IF gas_object.balance < status.gas_used
                      THEN [store |-> ran.store, result |-> Panic]
                      ELSE [store |-> ensure_active_inputs_mutated(
                                        write_object(ran.store,
                                                     deduct_gas(gas_object, status.gas_used))),
                            result |-> Ok(status)]
                 ELSE [store |-> ensure_active_inputs_mutated(ran.store),
                       result |-> Ok(status)]

\* execute_order: dispatches on the kind of the order; the last input is
\* taken as the gas object.  After a Failure the temporary store is reset
\* and the gas object alone is charged; then the active inputs are ensured
\* to be mutated.
execute_order(order, inputs, tx_digest) ==
    LET temporary_store == TemporaryStore_new(inputs, tx_digest)
        gas_object == inputs[Len(inputs)]
        rest == SubSeq(inputs, 1, Len(inputs) - 1)
        ran == CASE order.data.kind = "Transfer" ->
                      transfer(temporary_store, rest, order.data.recipient, gas_object)
                 [] order.data.kind = "Call" ->
                      IF rest = << >>
                      THEN [store |-> temporary_store, result |-> Panic]
                      ELSE adapter_execute(temporary_store, rest[Len(rest)],
                                           order.data.function,
                                           SubSeq(rest, 1, Len(rest) - 1),
                                           order.data.gas_budget, gas_object)
                 [] order.data.kind = "Publish" ->
                      adapter_publish(temporary_store, sender_address(order),
                                      order.data.gas_budget, gas_object)
    IN  IF ~ran.result.ok THEN ran
        ELSE LET status == ran.result.value
             IN  IF status.tag = "Failure"
                 THEN IF gas_object.balance < status.gas_used
                      THEN [store |-> ran.store, result |-> Panic]
                      ELSE [store |-> ensure_active_inputs_mutated(
                                        write_object(reset(ran.store),
                                                     deduct_gas(gas_object, status.gas_used))),
                            result |-> Ok(status)]
                 ELSE [store |-> ensure_active_inputs_mutated(ran.store),
                       result |-> Ok(status)]

(***************************************************************************)
(* State.                                                                  *)
(***************************************************************************)
VARIABLES
    db,        \* the persistent store (AuthorityState::_database)
    th,        \* the request handlers: position, locals, returned value
    commits,   \* history: per transaction digest, the update_state calls applied
    calls,     \* the number of requests received so far
    fetch,     \* the header getter: the fetch_headers_helper call in progress
    bounds     \* the transaction lookup: the TxBounds being queried

vars == <<db, th, commits, calls, fetch, bounds>>

(***************************************************************************)
(* The persistent store.  A record of its tables:                          *)
(*   objects        object id -> the latest Object, or None                *)
(*   order_lock     ObjectRef -> None (empty slot) or the SignedOrder      *)
(*                  (a missing key is an absent slot)                      *)
(*   signed_orders  transaction digest -> SignedOrder                      *)
(*   certificates   transaction digest -> CertifiedOrder                   *)
(*   signed_effects transaction digest -> SignedOrderEffects               *)
(*   parent_sync    ObjectRef -> the digest of the transaction that wrote it*)
(***************************************************************************)
\* init_order_lock: creates the empty slot of a reference (absent -> empty).
init_order_lock(order_lock, object_ref) ==
    IF object_ref \in DOMAIN order_lock THEN order_lock
    ELSE Put(order_lock, object_ref, None)

\* get_order_lock.
get_order_lock(store, object_ref) == Get(store.order_lock, object_ref)

\* get_order_info: the response recorded for a transaction digest.
get_order_info(store, transaction_digest) ==
    [signed_order |-> Get(store.signed_orders, transaction_digest),
     certified_order |-> Get(store.certificates, transaction_digest),
     signed_effects |-> Get(store.signed_effects, transaction_digest)]

\* A set_order_lock for which every slot that is not empty is a conflict,
\* also when it holds the very same order.
store_set_order_lock_strict(store, mutable_input_objects, signed_order) ==
    LET refs == {mutable_input_objects[i] : i \in DOMAIN mutable_input_objects}
        taken == {r \in refs : r \in DOMAIN store.order_lock
                               /\ store.order_lock[r] # None}
    IN  IF \E r \in refs : r \notin DOMAIN store.order_lock
        THEN Err(Error("OrderLockDoesNotExist"))
        ELSE IF taken # {}
        THEN Err([tag |-> "LockConflict",
                  pending_confirmation |->
                      {store.order_lock[r].order : r \in taken}])
        ELSE Ok([store EXCEPT
                   !.order_lock = [r \in DOMAIN store.order_lock |->
                                     IF r \in refs THEN signed_order
                                     ELSE store.order_lock[r]],
                   !.signed_orders = Put(store.signed_orders,
                                         order_digest(signed_order.order),
                                         signed_order)])

\* The store's set_order_lock: tests every slot of the batch and then sets
\* them all, as one atomic step; an absent slot or a slot locked to a
\* different order fails the whole batch.
store_set_order_lock(store, mutable_input_objects, signed_order) ==
    LET refs == {mutable_input_objects[i] : i \in DOMAIN mutable_input_objects}
        taken == {r \in refs : r \in DOMAIN store.order_lock
                               /\ store.order_lock[r] # None
                               /\ store.order_lock[r] # signed_order}
    IN  IF \E r \in refs : r \notin DOMAIN store.order_lock
        THEN Err(Error("OrderLockDoesNotExist"))
        ELSE IF taken # {}
        THEN Err([tag |-> "LockConflict",
                  pending_confirmation |->
                      {store.order_lock[r].order : r \in taken}])
        ELSE Ok([store EXCEPT
                   !.order_lock = [r \in DOMAIN store.order_lock |->
                                     IF r \in refs THEN signed_order
                                     ELSE store.order_lock[r]],
                   !.signed_orders = Put(store.signed_orders,
                                         order_digest(signed_order.order),
                                         signed_order)])

\* The tombstone reference of an object deleted at a version.
tombstone(id, version) == <<id, version + 1, OBJECT_DIGEST_DELETED>>

\* The store's update_state, the atomic commit: the certificate, the signed
\* effects, the objects written and deleted, their parent entries and the
\* empty lock slots of the new mutable references, all at once.
store_update_state(store, temporary_store, certificate, signed_effects) ==
    LET transaction_digest == order_digest(certificate.order)
        w == temporary_store.written
        del == temporary_store.deleted
        new_refs == {to_object_reference(w[id]) : id \in DOMAIN w}
        new_mutable_refs ==
            {to_object_reference(w[id]) : id \in {i \in DOMAIN w : ~is_read_only(w[i])}}
        tombstones == {tombstone(id, del[id]) : id \in DOMAIN del}
        new_store ==
            [store EXCEPT
               !.certificates = Put(store.certificates, transaction_digest, certificate),
               !.signed_effects = Put(store.signed_effects, transaction_digest,
                                      signed_effects),
               !.objects = [id \in DOMAIN store.objects \cup DOMAIN w |->
                              IF id \in DOMAIN w THEN w[id]
                              ELSE IF id \in DOMAIN del THEN None
                              ELSE store.objects[id]],
               !.parent_sync = [r \in DOMAIN store.parent_sync \cup new_refs
                                       \cup tombstones |->
                                  IF r \in new_refs \cup tombstones
                                  THEN transaction_digest
                                  ELSE store.parent_sync[r]],
               !.order_lock = [r \in DOMAIN store.order_lock \cup new_mutable_refs |->
                                 IF r \in DOMAIN store.order_lock
                                 THEN store.order_lock[r] ELSE None]]
    IN  [store |-> new_store,
         response |-> [signed_order |-> Get(store.signed_orders, transaction_digest),
                       certified_order |-> certificate,
                       signed_effects |-> signed_effects]]

\* multi_get_parents, for one reference.
get_parent(store, object_ref) == Get(store.parent_sync, object_ref)

\* get_unwrapped_object_ids: the written objects whose (id, version) has a
\* tombstone in the parent table.
get_unwrapped_object_ids(store, written_objects) ==
    {id \in DOMAIN written_objects :
        get_parent(store, <<id, written_objects[id].version, OBJECT_DIGEST_DELETED>>)
            # None}

\* The store after construction: the genesis objects, each with its parent
\* entry and, when mutable, its empty lock slot.
GenesisStore ==
    [objects |-> [id \in ObjectIDs \cup {PublishedID} |->
                    IF id \in ObjectIDs THEN GenesisObjects[id] ELSE None],
     order_lock |-> [r \in {to_object_reference(GenesisObjects[id]) :
                              id \in {i \in ObjectIDs : ~is_read_only(GenesisObjects[i])}}
                       |-> None],
     signed_orders |-> << >>,
     certificates |-> << >>,
     signed_effects |-> << >>,
     parent_sync |-> [r \in {to_object_reference(GenesisObjects[id]) : id \in ObjectIDs}
                        |-> GENESIS]]

(***************************************************************************)
(* The clients: the orders and certificates that may be submitted.         *)
(***************************************************************************)
\* The current reference of a stored object.
CurrentRef(store, id) == to_object_reference(store.objects[id])

\* A transfer of object x to recipient r, paid with the gas coin G.
TransferOrder(store, s, r, x) ==
    OrderData(s, "Transfer", r, None,
              <<MoveObject(CurrentRef(store, x)), MoveObject(CurrentRef(store, "G"))>>,
              CurrentRef(store, "G"), 0)

\* A call of function f of package P on the objects args, paid with the gas
\* coin G, whose whole balance is the budget.
CallOrder(store, s, args, f) ==
    OrderData(s, "Call", None, f,
              [i \in 1..Len(args) |-> MoveObject(CurrentRef(store, args[i]))]
                  \o <<MovePackage("P"), MoveObject(CurrentRef(store, "G"))>>,
              CurrentRef(store, "G"), store.objects["G"].balance)

\* A publish, paid with the gas coin G.
PublishOrder(store, s) ==
    OrderData(s, "Publish", None, None, <<MoveObject(CurrentRef(store, "G"))>>,
              CurrentRef(store, "G"), store.objects["G"].balance)

\* The ids among ids that the store holds an object for.
Stored(store, ids) == {i \in ids : store.objects[i] # None}

\* Orders the authority has already seen, which a client may send again.
SeenOrders(store) ==
    {store.signed_orders[d].order : d \in DOMAIN store.signed_orders}
        \cup {store.certificates[d].order : d \in DOMAIN store.certificates}

\* The transfers that race for object A: alice transfers it to bob and to
\* herself, paying with G; and the orders seen before.
TransferOrders(store) ==
    {MkOrder(TransferOrder(store, "alice", r, x), "alice") :
        r \in Addresses, x \in Stored(store, {"A"})}
    \cup SeenOrders(store)

\* The transfers, and alice's calls of the functions of P on A and B while
\* the coin G holds gas.
ClientOrders(store) ==
    TransferOrders(store)
    \cup {MkOrder(CallOrder(store, "alice", <<"A", "B">>, f), "alice") :
            f \in {g \in Functions : /\ Stored(store, {"A", "B"}) = {"A", "B"}
                                     /\ store.objects["G"].balance > 0}}

\* Every certificate a client may submit: a correctly signed order with a
\* quorum of signatures that verifies or not.
Certificates(orders) ==
    {MkCertificate(order, quorum_ok) :
        order \in {o \in orders : check_signature(o)}, quorum_ok \in BOOLEAN}

(***************************************************************************)
(* The request handlers.                                                   *)
(***************************************************************************)
IdleHandler ==
    [pc |-> "idle", op |-> None, order |-> None,
     mutable_objects |-> None, inputs |-> None, temp |-> None, status |-> None,
     dependencies |-> None, effects |-> None, ret |-> None,
     replay |-> FALSE,
     request |-> None, ref_and_digest |-> None, parent_certificate |-> None,
     object |-> None]

\* A handler that has returned ret.  The field replay is history: the call
\* found its order already locked (handle_order) or already executed
\* (handle_confirmation_order).
Returned(h, ret) ==
    [IdleHandler EXCEPT !.pc = "done", !.op = h.op, !.order = h.order, !.ret = ret,
                        !.replay = h.replay, !.request = h.request]

\* The header getter before fetch_headers_helper is called.
NotFetching == [pc |-> "idle"]

\* The transaction lookup before TxBounds::query is called.
NotQuerying == [pc |-> "idle"]

Init ==
    /\ db = GenesisStore
    /\ th = [p \in Threads |-> IdleHandler]
    /\ commits = << >>
    /\ calls = 0
    /\ fetch = NotFetching
    /\ bounds = NotQuerying

\* A call returns: the handler records the value.
Return(p, h, ret) == th' = [th EXCEPT ![p] = Returned(h, ret)]

\* The handler as it enters a call.
Entered(op, order) ==
    [IdleHandler EXCEPT !.op = op, !.order = order]

\* A handle_order that resolves and checks the inputs before it verifies
\* the signature.
HandleOrder_CheckLocks_BeforeSignature(p, orders) ==
    /\ th[p].pc \in {"idle", "done"}
    /\ calls < MaxCalls
    /\ calls' = calls + 1
    /\ \E order \in orders :
       LET h == Entered("handle_order", order)
           checked == check_locks(order, db.objects)
       IN  IF ~checked.ok
           THEN Return(p, h, checked)
           ELSE IF ~check_signature(order)
           THEN Return(p, h, Err(Error("InvalidSignature")))
           ELSE th' = [th EXCEPT ![p] =
                         [h EXCEPT !.pc = "set_order_lock",
                                   !.mutable_objects = mutable_objects_of(checked.value)]]
    /\ UNCHANGED <<db, commits, fetch, bounds>>

\* handle_order, lines 197-218: the signature check, check_locks (one read
\* of the object table) and the mutable inputs.
HandleOrder_CheckLocks(p, orders) ==
    /\ th[p].pc \in {"idle", "done"}
    /\ calls < MaxCalls
    /\ calls' = calls + 1
    /\ \E order \in orders :
       LET h == Entered("handle_order", order)
           checked == check_locks(order, db.objects)
       IN  IF ~check_signature(order)
           THEN Return(p, h, Err(Error("InvalidSignature")))
           ELSE IF ~checked.ok
           THEN Return(p, h, checked)
           ELSE th' = [th EXCEPT ![p] =
                         [h EXCEPT !.pc = "set_order_lock",
                                   !.mutable_objects = mutable_objects_of(checked.value)]]
    /\ UNCHANGED <<db, commits, fetch, bounds>>

\* Every reference of the batch is locked to the signed order.
AlreadyLocked(store, mutable_input_objects, signed_order) ==
    \A i \in DOMAIN mutable_input_objects :
        Get(store.order_lock, mutable_input_objects[i]) = signed_order

\* A handle_order that locks the references of the batch one by one: each
\* free slot is taken even when another slot of the batch is in conflict.
HandleOrder_SetOrderLock_OneByOne(p) ==
    /\ th[p].pc = "set_order_lock"
    /\ LET signed_order == SignedOrder_new(th[p].order, AuthorityName)
           refs == {th[p].mutable_objects[i] : i \in DOMAIN th[p].mutable_objects}
           locked == store_set_order_lock(db, th[p].mutable_objects, signed_order)
       IN  IF ~locked.ok
           THEN /\ Return(p, th[p], locked)
                /\ db' = [db EXCEPT !.order_lock =
                             [r \in DOMAIN db.order_lock |->
                                 IF r \in refs /\ db.order_lock[r] = None
                                 THEN signed_order ELSE db.order_lock[r]]]
           ELSE /\ db' = locked.value
                /\ th' = [th EXCEPT ![p].pc = "make_order_info"]
    /\ UNCHANGED <<commits, calls, fetch, bounds>>

\* A handle_order that drops the result of set_order_lock and goes on.
HandleOrder_SetOrderLock_Unchecked(p) ==
    /\ th[p].pc = "set_order_lock"
    /\ LET signed_order == SignedOrder_new(th[p].order, AuthorityName)
           locked == store_set_order_lock(db, th[p].mutable_objects, signed_order)
       IN  /\ db' = IF locked.ok THEN locked.value ELSE db
           /\ th' = [th EXCEPT ![p].pc = "make_order_info"]
    /\ UNCHANGED <<commits, calls, fetch, bounds>>

\* A handle_order that, on a conflict, gives the slots of the batch to the
\* new order and still reports the conflict.
HandleOrder_SetOrderLock_Overwriting(p) ==
    /\ th[p].pc = "set_order_lock"
    /\ LET signed_order == SignedOrder_new(th[p].order, AuthorityName)
           refs == {th[p].mutable_objects[i] : i \in DOMAIN th[p].mutable_objects}
           locked == store_set_order_lock(db, th[p].mutable_objects, signed_order)
       IN  IF ~locked.ok
           THEN /\ Return(p, th[p], locked)
                /\ db' = [db EXCEPT !.order_lock =
                             [r \in DOMAIN db.order_lock |->
                                 IF r \in refs THEN signed_order ELSE db.order_lock[r]]]
           ELSE /\ db' = locked.value
                /\ th' = [th EXCEPT ![p].pc = "make_order_info",
                                    ![p].replay = AlreadyLocked(db, th[p].mutable_objects,
                                                                signed_order)]
    /\ UNCHANGED <<commits, calls, fetch, bounds>>

\* handle_order, lines 218-224, and set_order_lock, lines 548-555: the
\* order is signed and the locks are set.
HandleOrder_SetOrderLock(p) ==
    /\ th[p].pc = "set_order_lock"
    /\ LET signed_order == SignedOrder_new(th[p].order, AuthorityName)
           locked == store_set_order_lock(db, th[p].mutable_objects, signed_order)
       IN  IF ~locked.ok
           THEN /\ Return(p, th[p], locked)
                /\ db' = db
           ELSE /\ db' = locked.value
                /\ th' = [th EXCEPT ![p].pc = "make_order_info",
                                    ![p].replay = AlreadyLocked(db, th[p].mutable_objects,
                                                                signed_order)]
    /\ UNCHANGED <<commits, calls, fetch, bounds>>

\* handle_order, line 227, and make_order_info, lines 522-527.
HandleOrder_MakeOrderInfo(p) ==
    /\ th[p].pc = "make_order_info"
    /\ Return(p, th[p], Ok(get_order_info(db, order_digest(th[p].order))))
    /\ UNCHANGED <<db, commits, calls, fetch, bounds>>

\* A handle_confirmation_order without the idempotence check.
HandleConfirmation_MakeOrderInfo_Unchecked(p, certificates) ==
    /\ th[p].pc \in {"idle", "done"}
    /\ calls < MaxCalls
    /\ calls' = calls + 1
    /\ \E certificate \in certificates :
       LET h == Entered("handle_confirmation_order", certificate.order)
       IN  IF ~certificate_check(certificate)
           THEN Return(p, h, Err(Error("InvalidCertificate")))
           ELSE th' = [th EXCEPT ![p] = [h EXCEPT !.pc = "check_locks"]]
    /\ UNCHANGED <<db, commits, fetch, bounds>>

\* A handle_confirmation_order that looks the recorded response up before
\* it checks the certificate.
HandleConfirmation_MakeOrderInfo_BeforeCheck(p, certificates) ==
    /\ th[p].pc \in {"idle", "done"}
    /\ calls < MaxCalls
    /\ calls' = calls + 1
    /\ \E certificate \in certificates :
       LET h == Entered("handle_confirmation_order", certificate.order)
           order_info == get_order_info(db, order_digest(certificate.order))
       IN  IF order_info.certified_order # None
           THEN Return(p, [h EXCEPT !.replay = TRUE], Ok(order_info))
           ELSE IF ~certificate_check(certificate)
           THEN Return(p, h, Err(Error("InvalidCertificate")))
           ELSE th' = [th EXCEPT ![p] = [h EXCEPT !.pc = "check_locks"]]
    /\ UNCHANGED <<db, commits, fetch, bounds>>

\* handle_confirmation_order, lines 235-246: the certificate check and the
\* idempotence check (one read of the recorded response).
HandleConfirmation_MakeOrderInfo(p, certificates) ==
    /\ th[p].pc \in {"idle", "done"}
    /\ calls < MaxCalls
    /\ calls' = calls + 1
    /\ \E certificate \in certificates :
       LET h == Entered("handle_confirmation_order", certificate.order)
           order_info == get_order_info(db, order_digest(certificate.order))
       IN  IF ~certificate_check(certificate)
           THEN Return(p, h, Err(Error("InvalidCertificate")))
           ELSE IF order_info.certified_order # None
           THEN Return(p, [h EXCEPT !.replay = TRUE], Ok(order_info))
           ELSE th' = [th EXCEPT ![p] = [h EXCEPT !.pc = "check_locks"]]
    /\ UNCHANGED <<db, commits, fetch, bounds>>

\* The previous transactions of the inputs before the last one, the gas
\* object.
previous_transactions_without_gas(inputs) ==
    {inputs[i].previous_transaction : i \in 1..(Len(inputs) - 1)}

\* The previous transactions of a sequence of objects.
previous_transactions(inputs) ==
    {inputs[i].previous_transaction : i \in DOMAIN inputs}

\* A handle_confirmation_order that returns the error of a Failure status
\* to its caller instead of committing the failure.
HandleConfirmation_Execute_FailureAsError(p) ==
    /\ th[p].pc = "check_locks"
    /\ LET order == th[p].order
           checked == check_locks(order, db.objects)
           inputs == [i \in DOMAIN checked.value |-> checked.value[i].object]
           executed == execute_order(order, inputs, order_digest(order))
       IN  IF ~checked.ok
           THEN Return(p, th[p], checked)
           ELSE IF ~executed.result.ok
           THEN Return(p, th[p], executed.result)
           ELSE IF executed.result.value.tag = "Failure"
           THEN Return(p, th[p], Err(executed.result.value.error))
           ELSE th' = [th EXCEPT ![p] =
                         [th[p] EXCEPT !.pc = "get_unwrapped_object_ids",
                                       !.inputs = inputs,
                                       !.dependencies = previous_transactions(inputs),
                                       !.temp = executed.store,
                                       !.status = executed.result.value]]
    /\ UNCHANGED <<db, commits, calls, fetch, bounds>>

\* A handle_confirmation_order that records the certificate before it
\* checks the inputs and executes, so that a failed call leaves it behind.
HandleConfirmation_Execute_RecordingCertificate(p) ==
    /\ th[p].pc = "check_locks"
    /\ LET order == th[p].order
           checked == check_locks(order, db.objects)
           inputs == [i \in DOMAIN checked.value |-> checked.value[i].object]
           executed == execute_order(order, inputs, order_digest(order))
           recorded == [db EXCEPT !.certificates =
                           Put(db.certificates, order_digest(order),
                               MkCertificate(order, TRUE))]
       IN  IF ~checked.ok
           THEN Return(p, th[p], checked) /\ db' = recorded
           ELSE IF ~executed.result.ok
           THEN Return(p, th[p], executed.result) /\ db' = recorded
           ELSE /\ th' = [th EXCEPT ![p] =
                            [th[p] EXCEPT !.pc = "get_unwrapped_object_ids",
                                          !.inputs = inputs,
                                          !.dependencies = previous_transactions(inputs),
                                          !.temp = executed.store,
                                          !.status = executed.result.value]]
                /\ db' = db
    /\ UNCHANGED <<commits, calls, fetch, bounds>>

\* A handle_confirmation_order that consults the lock table: it refuses a
\* certificate when the slot of one of its mutable inputs is not held by
\* the order of the certificate.
HandleConfirmation_Execute_ReadingLocks(p) ==
    /\ th[p].pc = "check_locks"
    /\ LET order == th[p].order
           checked == check_locks(order, db.objects)
           inputs == [i \in DOMAIN checked.value |-> checked.value[i].object]
           executed == execute_order(order, inputs, order_digest(order))
           mutable_objects == mutable_objects_of(checked.value)
           held == \A i \in DOMAIN mutable_objects :
                      LET lock == get_order_lock(db, mutable_objects[i])
                      IN  lock # None /\ lock.order = order
       IN  IF ~checked.ok
           THEN Return(p, th[p], checked)
           ELSE IF ~held
           THEN Return(p, th[p], Err(Error("LockConflict")))
           ELSE IF ~executed.result.ok
           THEN Return(p, th[p], executed.result)
           ELSE th' = [th EXCEPT ![p] =
                         [th[p] EXCEPT !.pc = "get_unwrapped_object_ids",
                                       !.inputs = inputs,
                                       !.dependencies = previous_transactions(inputs),
                                       !.temp = executed.store,
                                       !.status = executed.result.value]]
    /\ UNCHANGED <<db, commits, calls, fetch, bounds>>

\* handle_confirmation_order, lines 248-264: check_locks (one read of the
\* object table), the dependencies and execute_order.
HandleConfirmation_Execute(p) ==
    /\ th[p].pc = "check_locks"
    /\ LET order == th[p].order
           checked == check_locks(order, db.objects)
           inputs == [i \in DOMAIN checked.value |-> checked.value[i].object]
           executed == execute_order(order, inputs, order_digest(order))
       IN  IF ~checked.ok
           THEN Return(p, th[p], checked)
           ELSE IF ~executed.result.ok
           THEN Return(p, th[p], executed.result)
           ELSE th' = [th EXCEPT ![p] =
                         [th[p] EXCEPT !.pc = "get_unwrapped_object_ids",
                                       !.inputs = inputs,
                                       !.dependencies = previous_transactions(inputs),
                                       !.temp = executed.store,
                                       !.status = executed.result.value]]
    /\ UNCHANGED <<db, commits, calls, fetch, bounds>>

\* A handle_confirmation_order that inserts the certificate into the
\* certificates table when it signs the effects, before update_state.
HandleConfirmation_SignEffects_StoringCertificate(p) ==
    /\ th[p].pc = "get_unwrapped_object_ids"
    /\ LET h == th[p]
           unwrapped_object_ids == get_unwrapped_object_ids(db, written(h.temp))
           temporary_store == patch_unwrapped_object_version(h.temp, unwrapped_object_ids)
       IN  /\ th' = [th EXCEPT ![p] =
                       [h EXCEPT !.pc = "update_state",
                                 !.temp = temporary_store,
                                 !.dependencies = h.dependencies \ {GENESIS},
                                 !.effects = to_signed_effects(
                                                 temporary_store, AuthorityName,
                                                 order_digest(h.order),
                                                 h.dependencies \ {GENESIS}, h.status,
                                                 gas_payment_object_ref(h.order)[1])]]
           /\ db' = [db EXCEPT !.certificates =
                        Put(db.certificates, order_digest(h.order),
                            MkCertificate(h.order, TRUE))]
    /\ UNCHANGED <<commits, calls, fetch, bounds>>

\* A handle_confirmation_order that leaves the genesis digest among the
\* dependencies it signs.
HandleConfirmation_SignEffects_KeepingGenesis(p) ==
    /\ th[p].pc = "get_unwrapped_object_ids"
    /\ LET h == th[p]
           unwrapped_object_ids == get_unwrapped_object_ids(db, written(h.temp))
           temporary_store == patch_unwrapped_object_version(h.temp, unwrapped_object_ids)
       IN  th' = [th EXCEPT ![p] =
                    [h EXCEPT !.pc = "update_state",
                              !.temp = temporary_store,
                              !.effects = to_signed_effects(
                                              temporary_store, AuthorityName,
                                              order_digest(h.order),
                                              h.dependencies, h.status,
                                              gas_payment_object_ref(h.order)[1])]]
    /\ UNCHANGED <<db, commits, calls, fetch, bounds>>

\* A handle_confirmation_order that signs the effects with the id of the
\* first resolved input as the id of the gas object.
HandleConfirmation_SignEffects_GasOfFirstInput(p) ==
    /\ th[p].pc = "get_unwrapped_object_ids"
    /\ LET h == th[p]
           unwrapped_object_ids == get_unwrapped_object_ids(db, written(h.temp))
           temporary_store == patch_unwrapped_object_version(h.temp, unwrapped_object_ids)
       IN  th' = [th EXCEPT ![p] =
                    [h EXCEPT !.pc = "update_state",
                              !.temp = temporary_store,
                              !.dependencies = h.dependencies \ {GENESIS},
                              !.effects = to_signed_effects(
                                              temporary_store, AuthorityName,
                                              order_digest(h.order),
                                              h.dependencies \ {GENESIS}, h.status,
                                              h.inputs[1].id)]]
    /\ UNCHANGED <<db, commits, calls, fetch, bounds>>

\* handle_confirmation_order, lines 266-278: the genesis digest leaves the
\* dependencies, the unwrapped objects are found (one read of the parent
\* table) and patched, the effects are signed.
HandleConfirmation_SignEffects(p) ==
    /\ th[p].pc = "get_unwrapped_object_ids"
    /\ LET h == th[p]
           unwrapped_object_ids == get_unwrapped_object_ids(db, written(h.temp))
           temporary_store == patch_unwrapped_object_version(h.temp, unwrapped_object_ids)
       IN  th' = [th EXCEPT ![p] =
                    [h EXCEPT !.pc = "update_state",
                              !.temp = temporary_store,
                              !.dependencies = h.dependencies \ {GENESIS},
                              !.effects = to_signed_effects(
                                              temporary_store, AuthorityName,
                                              order_digest(h.order),
                                              h.dependencies \ {GENESIS}, h.status,
                                              gas_payment_object_ref(h.order)[1])]]
    /\ UNCHANGED <<db, commits, calls, fetch, bounds>>

\* An update_state that also releases the lock slots of the inputs it consumed.
HandleConfirmation_UpdateState_ReleasingLocks(p) ==
    /\ th[p].pc = "update_state"
    /\ LET h == th[p]
           updated == store_update_state(db, h.temp, MkCertificate(h.order, TRUE),
                                         h.effects)
           transaction_digest == order_digest(h.order)
           consumed == {to_object_reference(h.inputs[i]) : i \in DOMAIN h.inputs}
       IN  /\ db' = [updated.store EXCEPT !.order_lock =
                        [r \in DOMAIN updated.store.order_lock |->
                            IF r \in consumed THEN None
                            ELSE updated.store.order_lock[r]]]
           /\ Return(p, h, Ok(updated.response))
           /\ commits' = Put(commits, transaction_digest,
                             IF transaction_digest \in DOMAIN commits
                             THEN commits[transaction_digest] + 1 ELSE 1)
    /\ UNCHANGED <<calls, fetch, bounds>>

\* handle_confirmation_order, lines 279-281, and update_state, lines 557-565.
HandleConfirmation_UpdateState(p) ==
    /\ th[p].pc = "update_state"
    /\ LET h == th[p]
           updated == store_update_state(db, h.temp, MkCertificate(h.order, TRUE),
                                         h.effects)
           transaction_digest == order_digest(h.order)
       IN  /\ db' = updated.store
           /\ Return(p, h, Ok(updated.response))
           /\ commits' = Put(commits, transaction_digest,
                             IF transaction_digest \in DOMAIN commits
                             THEN commits[transaction_digest] + 1 ELSE 1)
    /\ UNCHANGED <<calls, fetch, bounds>>

\* A get_parent_iterator that yields the entries of every version of the
\* object id, whatever the version asked for.
get_parent_iterator_any_version(store, object_id, seq) ==
    {<<r, store.parent_sync[r]>> :
        r \in {k \in DOMAIN store.parent_sync : k[1] = object_id}}

\* get_parent_iterator: the entries (ObjectRef, TransactionDigest) of the
\* parent table for an object id, at any version or at the version seq.
get_parent_iterator(store, object_id, seq) ==
    {<<r, store.parent_sync[r]>> :
        r \in {k \in DOMAIN store.parent_sync :
                  k[1] = object_id /\ (seq = None \/ k[2] = seq.some)}}

\* The entries an iterator may yield first: the table is ordered by
\* (id, version, digest), and digests are in no known order.
first(entries) ==
    {e \in entries : \A f \in entries : e[1][2] <= f[1][2]}

\* get_latest_parent_entry: the entries of the highest version of the id.
get_latest_parent_entry(store, object_id) ==
    LET entries == get_parent_iterator(store, object_id, None)
    IN  {e \in entries : \A f \in entries : e[1][2] >= f[1][2]}

\* read_certificate.
read_certificate(store, transaction_digest) == Get(store.certificates, transaction_digest)

\* handle_object_info_request, lines 396-424, up to the read of the
\* certificate: one read of the parent table.
HandleObjectInfo_ParentEntry(p, requests) ==
    /\ th[p].pc \in {"idle", "done"}
    /\ calls < MaxCalls
    /\ calls' = calls + 1
    /\ \E request \in requests :
       LET h == [IdleHandler EXCEPT !.op = "handle_object_info_request",
                                    !.request = request]
           found == IF request.request_sequence_number # None
                    THEN first(get_parent_iterator(db, request.object_id,
                                                   request.request_sequence_number))
                    ELSE get_latest_parent_entry(db, request.object_id)
       IN  IF found = {}
           THEN th' = [th EXCEPT ![p] = [h EXCEPT !.pc = "get_object"]]
           ELSE \E e \in found :
                   th' = [th EXCEPT ![p] =
                            [h EXCEPT !.pc = IF e[2] = GENESIS THEN "get_object"
                                             ELSE "read_certificate",
                                      !.ref_and_digest = e]]
    /\ UNCHANGED <<db, commits, fetch, bounds>>

\* handle_object_info_request, lines 417-421: the certificate of the
\* transaction of the parent entry, or CertificateNotfound.
HandleObjectInfo_ReadCertificate(p) ==
    /\ th[p].pc = "read_certificate"
    /\ LET certificate == read_certificate(db, th[p].ref_and_digest[2])
       IN  IF certificate = None
           THEN Return(p, th[p], Err([tag |-> "CertificateNotfound",
                                      certificate_digest |-> th[p].ref_and_digest[2]]))
           ELSE th' = [th EXCEPT ![p] =
                         [th[p] EXCEPT !.pc = "get_object",
                                       !.parent_certificate = certificate]]
    /\ UNCHANGED <<db, commits, calls, fetch, bounds>>

\* The response of handle_object_info_request, lines 456-460.
ObjectInfoResponse(h, object_and_lock) ==
    [parent_certificate |-> h.parent_certificate,
     requested_object_reference |->
         IF h.ref_and_digest = None THEN None ELSE h.ref_and_digest[1],
     object_and_lock |-> object_and_lock]

\* handle_object_info_request, lines 428-454: the latest version of the
\* object; a missing object and a read-only object need no lock.
HandleObjectInfo_GetObject(p) ==
    /\ th[p].pc = "get_object"
    /\ LET object == Get(db.objects, th[p].request.object_id)
       IN  IF object = None
           THEN Return(p, th[p], Ok(ObjectInfoResponse(th[p], None)))
           ELSE IF is_read_only(object)
           THEN Return(p, th[p], Ok(ObjectInfoResponse(
                                       th[p], [object |-> object, lock |-> None])))
           ELSE th' = [th EXCEPT ![p] =
                         [th[p] EXCEPT !.pc = "get_order_lock", !.object = object]]
    /\ UNCHANGED <<db, commits, calls, fetch, bounds>>

\* A handle_object_info_request that returns the lock of the reference it
\* found for the requested sequence number.
HandleObjectInfo_GetOrderLock_OfRequestedReference(p) ==
    /\ th[p].pc = "get_order_lock"
    /\ Return(p, th[p],
              Ok(ObjectInfoResponse(
                    th[p], [object |-> th[p].object,
                            lock |-> IF th[p].ref_and_digest = None THEN None
                                     ELSE get_order_lock(db, th[p].ref_and_digest[1])])))
    /\ UNCHANGED <<db, commits, calls, fetch, bounds>>

\* handle_object_info_request, lines 436 and 456-460: the lock of the
\* reference of the object read before.
HandleObjectInfo_GetOrderLock(p) ==
    /\ th[p].pc = "get_order_lock"
    /\ Return(p, th[p],
              Ok(ObjectInfoResponse(
                    th[p], [object |-> th[p].object,
                            lock |-> get_order_lock(
                                        db, to_object_reference(th[p].object))])))
    /\ UNCHANGED <<db, commits, calls, fetch, bounds>>

\* The process crashes and restarts: every call in progress is lost, the
\* persistent store is what it was.
Crash ==
    /\ \E p \in Threads : th[p].pc \notin {"idle", "done"}
    /\ th' = [p \in Threads |-> IdleHandler]
    /\ UNCHANGED <<db, commits, calls, fetch, bounds>>

\* Concurrent request handling: the handlers interleave at every access to
\* the store; the clients race with transfers of the same object.
Next ==
    \/ \E p \in Threads : HandleOrder_CheckLocks(p, TransferOrders(db))
    \/ \E p \in Threads : HandleOrder_SetOrderLock(p)
    \/ \E p \in Threads : HandleOrder_MakeOrderInfo(p)
    \/ \E p \in Threads : HandleConfirmation_MakeOrderInfo(p, Certificates(TransferOrders(db)))
    \/ \E p \in Threads : HandleConfirmation_Execute(p)
    \/ \E p \in Threads : HandleConfirmation_SignEffects(p)
    \/ \E p \in Threads : HandleConfirmation_UpdateState(p)
    \/ Crash

Spec == Init /\ [][Next]_vars

\* One handler: the calls run one after the other, on transfers and calls.
NextSeq ==
    \/ HandleOrder_CheckLocks("t1", ClientOrders(db))
    \/ HandleOrder_SetOrderLock("t1")
    \/ HandleOrder_MakeOrderInfo("t1")
    \/ HandleConfirmation_MakeOrderInfo("t1", Certificates(ClientOrders(db)))
    \/ HandleConfirmation_Execute("t1")
    \/ HandleConfirmation_SignEffects("t1")
    \/ HandleConfirmation_UpdateState("t1")
    \/ Crash

SpecSeq == Init /\ [][NextSeq]_vars

\* An id that names no object of the store.
UnknownID == "Z"

\* The reference of a stored object with its version replaced.
RefAtVersion(store, id, version) ==
    <<id, version, digest(store.objects[id])>>

\* Orders that handle_order must refuse, made from the current state of the
\* store: a signature by another key, no input, the same input twice (at a
\* version the object does not have yet), a sender that does not own the
\* object, a version the object does not have yet, and several bad inputs
\* at once (an unknown object, a wrong version
\* and a package that does not exist, before the good gas coin).
MalformedOrders(store) ==
    LET a == CurrentRef(store, "A")
        g == CurrentRef(store, "G")
        next_a == RefAtVersion(store, "A", store.objects["A"].version + 1)
    IN  {MkOrder(TransferOrder(store, "alice", "bob", "A"), "bob"),
         MkOrder(OrderData("alice", "Transfer", "bob", None, << >>, g, 0), "alice"),
         MkOrder(OrderData("alice", "Transfer", "bob", None,
                           <<MoveObject(next_a), MoveObject(next_a), MoveObject(g)>>,
                           g, 0), "alice"),
         MkOrder(TransferOrder(store, "bob", "bob", "A"), "bob"),
         MkOrder(OrderData("alice", "Transfer", "bob", None,
                           <<MoveObject(next_a), MoveObject(g)>>, g, 0), "alice"),
         MkOrder(OrderData("alice", "Transfer", "bob", None,
                           <<MoveObject(<<UnknownID, 0, digest(store.objects["A"])>>),
                             MoveObject(next_a), MovePackage(PublishedID),
                             MoveObject(g)>>, g, 0), "alice")}

\* What the clients of an authority under test send to handle_order: the
\* transfers and the malformed orders.
SubmittedOrders(store) ==
    TransferOrders(store)
    \cup {o \in MalformedOrders(store) : Stored(store, {"A"}) = {"A"}}

\* One handler that receives well-formed and malformed orders, and the
\* certificates of the transfers.
NextErr ==
    \/ HandleOrder_CheckLocks("t1", SubmittedOrders(db))
    \/ HandleOrder_SetOrderLock("t1")
    \/ HandleOrder_MakeOrderInfo("t1")
    \/ HandleConfirmation_MakeOrderInfo("t1", Certificates(TransferOrders(db)))
    \/ HandleConfirmation_Execute("t1")
    \/ HandleConfirmation_SignEffects("t1")
    \/ HandleConfirmation_UpdateState("t1")

SpecErr == Init /\ [][NextErr]_vars

\* Alice's transfer of her object C to recipient r, paid with G, at the
\* current references.
TransferOfC(store, r) == MkOrder(TransferOrder(store, "alice", r, "C"), "alice")

\* The objects an order writes when it is executed on the store as it is.
OutputsOf(store, order) ==
    LET checked == check_locks(order, store.objects)
        inputs == [i \in DOMAIN checked.value |-> checked.value[i].object]
        executed == execute_order(order, inputs, order_digest(order))
    IN  IF checked.ok /\ executed.result.ok /\ executed.result.value.tag = "Success"
        THEN written(executed.store)
        ELSE << >>

\* A new order for the outputs of a transaction: alice's transfer to bob of
\* the version of C, paid with the version of G, that the transaction writes.
FollowUpOrder(outputs) ==
    MkOrder(OrderData("alice", "Transfer", "bob", None,
                      <<MoveObject(to_object_reference(outputs["C"])),
                        MoveObject(to_object_reference(outputs["G"]))>>,
                      to_object_reference(outputs["G"]), 0), "alice")

\* The one order on the current version of C that a quorum certifies: the
\* transfer of C to alice herself.
CertifiedTransfers(store) ==
    {TransferOfC(store, "alice") :
        x \in {i \in Stored(store, {"C"}) : store.objects[i].owner = "alice"}}

\* What the clients send to handle_order while certificates are confirmed:
\* alice's transfers of C at the current references, the orders seen before,
\* and new orders for the outputs of the certified transfer.
RaceOrders(store) ==
    {TransferOfC(store, r) :
        r \in Addresses,
        x \in {i \in Stored(store, {"C"}) : store.objects[i].owner = "alice"}}
    \cup SeenOrders(store)
    \cup {FollowUpOrder(OutputsOf(store, o)) :
            o \in {c \in CertifiedTransfers(store) : OutputsOf(store, c) # << >>}}

\* The certificates the clients send: of the certified transfer and of the
\* orders certified before.  No two certified orders consume the same
\* reference.
RaceCertificates(store) ==
    Certificates({o \in CertifiedTransfers(store) \cup
                         {store.certificates[d].order : d \in DOMAIN store.certificates} :
                    \A d \in DOMAIN store.certificates :
                        \/ store.certificates[d].order = o
                        \/ {o.data.inputs[i] : i \in DOMAIN o.data.inputs}
                             \cap {store.certificates[d].order.data.inputs[i] :
                                     i \in DOMAIN store.certificates[d].order.data.inputs}
                             = {}})

\* Concurrent request handling with honest certificates: submissions race
\* with the confirmation of the transaction whose outputs they name.
NextRace ==
    \/ \E p \in Threads : HandleOrder_CheckLocks(p, RaceOrders(db))
    \/ \E p \in Threads : HandleOrder_SetOrderLock(p)
    \/ \E p \in Threads : HandleOrder_MakeOrderInfo(p)
    \/ \E p \in Threads : HandleConfirmation_MakeOrderInfo(p, RaceCertificates(db))
    \/ \E p \in Threads : HandleConfirmation_Execute(p)
    \/ \E p \in Threads : HandleConfirmation_SignEffects(p)
    \/ \E p \in Threads : HandleConfirmation_UpdateState(p)

SpecRace == Init /\ [][NextRace]_vars

\* Option::Some.
Some(v) == [some |-> v]

\* ObjectInfoRequest: the object id and, when the parent certificate of a
\* version is requested, Some of its sequence number.
ObjectInfoRequest(object_id, request_sequence_number) ==
    [object_id |-> object_id, request_sequence_number |-> request_sequence_number]

\* The sequence numbers a client asks about: those of the parent table and
\* the next one.
SequenceNumbers(store) ==
    LET known == {r[2] : r \in DOMAIN store.parent_sync}
    IN  known \cup {n + 1 : n \in known}

\* The requests the clients send.
ObjectInfoRequests(store) ==
    {ObjectInfoRequest(id, seq) :
        id \in {"A", "B", "G", UnknownID},
        seq \in {None} \cup {Some(n) : n \in SequenceNumbers(store)}}

\* One handler that executes transfers and calls while another answers
\* object info requests.
NextInfo ==
    \/ HandleOrder_CheckLocks("t1", ClientOrders(db))
    \/ HandleOrder_SetOrderLock("t1")
    \/ HandleOrder_MakeOrderInfo("t1")
    \/ HandleConfirmation_MakeOrderInfo("t1", Certificates(ClientOrders(db)))
    \/ HandleConfirmation_Execute("t1")
    \/ HandleConfirmation_SignEffects("t1")
    \/ HandleConfirmation_UpdateState("t1")
    \/ HandleObjectInfo_ParentEntry("t2", ObjectInfoRequests(db))
    \/ HandleObjectInfo_ReadCertificate("t2")
    \/ HandleObjectInfo_GetObject("t2")
    \/ HandleObjectInfo_GetOrderLock("t2")

SpecInfo == Init /\ [][NextInfo]_vars

\* A transfer to bob by sender s that declares the current references of
\* the objects ids as inputs and pays with the object gas, its last input.
TransferOf(store, s, ids, gas) ==
    OrderData(s, "Transfer", "bob", None,
              [i \in 1..Len(ids) |-> MoveObject(CurrentRef(store, ids[i]))]
                  \o <<MoveObject(CurrentRef(store, gas))>>,
              CurrentRef(store, gas), 0)

\* Orders that exercise every check of the inputs and every path of the
\* transfer, made from the current state of the store: alice's transfers of
\* C, of A, of the read-only R and of B, the object of A, alone and with A;
\* transfers of no object and of two; no input at all; an input twice;
\* bob's transfer of alice's C; a read-only gas payment; an order signed
\* with another key; alice's transfer of C to the address of C itself; and
\* a call with the package P.
InputOrders(store) ==
    {MkOrder(TransferOf(store, "alice", ids, "G"), "alice") :
        ids \in {<<"C">>, <<"A">>, <<"R">>, <<"B">>, <<"B", "A">>, << >>,
                 <<"A", "C">>, <<"C", "C">>}}
    \cup {MkOrder(OrderData("alice", "Transfer", "bob", None, << >>,
                            CurrentRef(store, "G"), 0), signer) :
            signer \in Addresses}
    \cup {MkOrder(TransferOf(store, "bob", <<"C">>, "G"), "bob"),
          MkOrder(TransferOf(store, "alice", <<"C">>, "R"), "alice"),
          MkOrder(TransferOf(store, "alice", <<"C">>, "G"), "bob"),
          MkOrder(TransferOrder(store, "alice", "C", "C"), "alice"),
          MkOrder(CallOrder(store, "alice", <<"A", "B">>, "abort"), "alice")}
    \cup SeenOrders(store)

\* One handler that receives these orders and their certificates.
NextInputs ==
    \/ HandleOrder_CheckLocks("t1", InputOrders(db))
    \/ HandleOrder_SetOrderLock("t1")
    \/ HandleOrder_MakeOrderInfo("t1")
    \/ HandleConfirmation_MakeOrderInfo("t1", Certificates(InputOrders(db)))
    \/ HandleConfirmation_Execute("t1")
    \/ HandleConfirmation_SignEffects("t1")
    \/ HandleConfirmation_UpdateState("t1")

SpecInputs == Init /\ [][NextInputs]_vars

\* Orders whose declared references disagree with the store, made from its
\* current state: alice's good transfer of A; A at its version with the
\* digest of another object; A at a version it does not have, with the
\* digest of another object; a call that names the Move object C as its
\* package; a call with three such inputs before the good gas coin; and the
\* orders seen before, whose references are stale once they are executed.
RefOrders(store) ==
    LET a == store.objects["A"]
        g == CurrentRef(store, "G")
        other == digest(store.objects["B"])
        call_of(inputs) == MkOrder(OrderData("alice", "Call", None, "abort", inputs, g,
                                          store.objects["G"].balance), "alice")
        transfer_of(ref) == MkOrder(OrderData("alice", "Transfer", "bob", None,
                                           <<MoveObject(ref), MoveObject(g)>>, g, 0),
                                 "alice")
    IN  {transfer_of(CurrentRef(store, "A")),
         transfer_of(<<"A", a.version, other>>),
         transfer_of(<<"A", a.version + 1, other>>),
         call_of(<<MoveObject(CurrentRef(store, "A")), MovePackage("C"), MoveObject(g)>>),
         call_of(<<MoveObject(<<"A", a.version, other>>),
                MoveObject(RefAtVersion(store, "C", store.objects["C"].version + 1)),
                MovePackage("B"), MoveObject(g)>>)}
        \cup SeenOrders(store)

\* One handler that receives these orders and their certificates.
NextRefs ==
    \/ HandleOrder_CheckLocks("t1", RefOrders(db))
    \/ HandleOrder_SetOrderLock("t1")
    \/ HandleOrder_MakeOrderInfo("t1")
    \/ HandleConfirmation_MakeOrderInfo("t1", Certificates(RefOrders(db)))
    \/ HandleConfirmation_Execute("t1")
    \/ HandleConfirmation_SignEffects("t1")
    \/ HandleConfirmation_UpdateState("t1")

SpecRefs == Init /\ [][NextRefs]_vars

\* Requests about the object A that the transfers race for, the read-only
\* object R, the package P and an unknown id: the latest version, or the
\* version of genesis.
LockInfoRequests ==
    {ObjectInfoRequest(id, seq) :
        id \in {"A", "R", "P", UnknownID}, seq \in {None, Some(0)}}

\* One handler that locks and executes the transfers of A while another
\* answers object info requests.
NextLockInfo ==
    \/ HandleOrder_CheckLocks("t1", TransferOrders(db))
    \/ HandleOrder_SetOrderLock("t1")
    \/ HandleOrder_MakeOrderInfo("t1")
    \/ HandleConfirmation_MakeOrderInfo("t1", Certificates(TransferOrders(db)))
    \/ HandleConfirmation_Execute("t1")
    \/ HandleConfirmation_SignEffects("t1")
    \/ HandleConfirmation_UpdateState("t1")
    \/ HandleObjectInfo_ParentEntry("t2", LockInfoRequests)
    \/ HandleObjectInfo_ReadCertificate("t2")
    \/ HandleObjectInfo_GetObject("t2")
    \/ HandleObjectInfo_GetOrderLock("t2")

SpecLockInfo == Init /\ [][NextLockInfo]_vars

(***************************************************************************)
(* Properties.                                                             *)
(***************************************************************************)
\* The references an order names as Move objects.  The orders of the clients
\* name the package as a package, so all of these are mutable inputs.
MoveObjectRefs(order) ==
    {order.data.inputs[i].ref :
        i \in {j \in DOMAIN order.data.inputs : order.data.inputs[j].tag = "MoveObject"}}

\* The signed orders, other than signed_order, that hold a slot of the batch.
Holders(store, mutable_input_objects, signed_order) ==
    {Get(store.order_lock, mutable_input_objects[i]) : i \in DOMAIN mutable_input_objects}
        \ {None, signed_order}

\* Handler p has returned from a call of op.
Done(p, op) == th[p].pc = "done" /\ th[p].op = op

\* Two handle_order calls that both succeeded hold disjoint references
\* unless they are for the same order.
C1_Winners ==
    \A p, q \in Threads :
        (/\ Done(p, "handle_order") /\ th[p].ret.ok
         /\ Done(q, "handle_order") /\ th[q].ret.ok
         /\ th[p].order # th[q].order)
        => MoveObjectRefs(th[p].order) \cap MoveObjectRefs(th[q].order) = {}

\* The step of handle_order that sets the locks: when another order holds
\* one of the slots the call returns LockConflict and the slots stay as they
\* are; otherwise the slots of the batch hold this order.
C1_SetLockStep ==
    \A p \in Threads :
        (th[p].pc = "set_order_lock" /\ th'[p].pc \in {"make_order_info", "done"})
        => LET signed_order == SignedOrder_new(th[p].order, AuthorityName)
               refs == th[p].mutable_objects
           IN  IF Holders(db, refs, signed_order) # {}
               THEN /\ th'[p].pc = "done"
                    /\ ~th'[p].ret.ok
                    /\ th'[p].ret.error.tag = "LockConflict"
                    /\ db'.order_lock = db.order_lock
               ELSE AlreadyLocked(db', refs, signed_order)

\* C1: lock exclusivity.  Of two distinct orders that name the same mutable
\* ObjectRef, under every interleaving of their handle_order calls at most
\* one ends up holding the slot; the call that loses returns LockConflict
\* and the slot still holds the winner's signed order.
C1_LockExclusivity == []C1_Winners /\ [][C1_SetLockStep]_vars

\* One handler has locked its order and the other, with a different order on
\* the same reference, has returned LockConflict naming the winner.
C1_Witness ==
    \E p, q \in Threads :
        /\ Done(p, "handle_order") /\ th[p].ret.ok
        /\ Done(q, "handle_order") /\ ~th[q].ret.ok
        /\ th[q].ret.error.tag = "LockConflict"
        /\ th[p].order # th[q].order
        /\ th[p].order \in th[q].ret.error.pending_confirmation
        /\ \E r \in MoveObjectRefs(th[p].order) \cap MoveObjectRefs(th[q].order) :
              db.order_lock[r] = SignedOrder_new(th[p].order, AuthorityName)


\* C2: once the lock slot of an ObjectRef is locked to a signed order, no
\* step of handle_order or of handle_confirmation_order resets it to empty,
\* removes it or gives it to another order.
C2_LockedStays ==
    [][\A r \in DOMAIN db.order_lock :
          db.order_lock[r] # None
          => /\ r \in DOMAIN db'.order_lock
             /\ db'.order_lock[r] = db.order_lock[r]]_vars

\* A slot is still locked after its version was consumed by a confirmation,
\* and a different order that asked for it was refused.
C2_Witness ==
    /\ \E r \in DOMAIN db.order_lock :
          /\ db.order_lock[r] # None
          /\ db.objects[r[1]] # None
          /\ db.objects[r[1]].version > r[2]
    /\ \E p \in Threads :
          /\ Done(p, "handle_order") /\ ~th[p].ret.ok
          /\ th[p].ret.error.tag = "LockConflict"

\* C3: locking is all-or-nothing.  The step of handle_order that sets the
\* locks either leaves every reference of the batch locked to the signed
\* order, or fails, changes no slot and leaves no reference of the batch
\* locked to this order.
C3_AllOrNothing ==
    [][\A p \in Threads :
          (th[p].pc = "set_order_lock" /\ th'[p].pc \in {"make_order_info", "done"})
          => LET signed_order == SignedOrder_new(th[p].order, AuthorityName)
                 refs == th[p].mutable_objects
             IN  \/ /\ th'[p].pc = "make_order_info"
                    /\ AlreadyLocked(db', refs, signed_order)
                 \/ /\ th'[p].pc = "done"
                    /\ ~th'[p].ret.ok
                    /\ db'.order_lock = db.order_lock
                    /\ \A i \in DOMAIN refs :
                          Get(db'.order_lock, refs[i]) # signed_order]_vars

\* A handle_order was refused for a conflict on one reference while another
\* reference of its batch is free, and stays free.
C3_Witness ==
    \E p \in Threads :
        /\ Done(p, "handle_order") /\ ~th[p].ret.ok
        /\ th[p].ret.error.tag = "LockConflict"
        /\ \E r \in MoveObjectRefs(th[p].order) :
              r \in DOMAIN db.order_lock /\ db.order_lock[r] = None
        /\ \E r \in MoveObjectRefs(th[p].order) :
              /\ r \in DOMAIN db.order_lock
              /\ db.order_lock[r] \notin {None, SignedOrder_new(th[p].order, AuthorityName)}

\* The order holds the lock of each of its references and each reference is
\* still the current one of its object: the order was submitted with
\* success and no confirmation has consumed its inputs since.
LockedAndCurrent(order) ==
    \A r \in MoveObjectRefs(order) :
        /\ Get(db.order_lock, r) = SignedOrder_new(order, AuthorityName)
        /\ db.objects[r[1]] # None
        /\ to_object_reference(db.objects[r[1]]) = r

\* Every handle_order on an order that is locked and current has returned
\* the response with the one SignedOrder of the order.
C4_SameSignedOrder ==
    \A p \in Threads :
        (Done(p, "handle_order") /\ LockedAndCurrent(th[p].order))
        => /\ th[p].ret.ok
           /\ th[p].ret.value.signed_order = SignedOrder_new(th[p].order, AuthorityName)
           /\ th[p].ret.value = get_order_info(db, order_digest(th[p].order))

\* The lock step of a handle_order whose references are already locked to
\* its order succeeds and leaves the store as it is.
C4_RelockStep ==
    \A p \in Threads :
        (/\ th[p].pc = "set_order_lock"
         /\ th'[p].pc \in {"make_order_info", "done"}
         /\ AlreadyLocked(db, th[p].mutable_objects,
                          SignedOrder_new(th[p].order, AuthorityName)))
        => th'[p].pc = "make_order_info" /\ db' = db

\* C4: idempotent submission.  handle_order called again with the same
\* Order, no confirmation in between, succeeds again, returns the identical
\* SignedOrder and leaves every lock slot as the first call left it.
C4_IdempotentSubmission == []C4_SameSignedOrder /\ [][C4_RelockStep]_vars

\* A handle_order has returned with success for an order whose references
\* it found already locked to that order, and nothing was ever confirmed.
C4_Witness ==
    \E p \in Threads :
        /\ Done(p, "handle_order") /\ th[p].ret.ok
        /\ th[p].replay
        /\ LockedAndCurrent(th[p].order)
        /\ DOMAIN db.certificates = {}

\* Handler p enters a call of op in this step.
Enters(p, op) ==
    /\ th[p].pc \in {"idle", "done"}
    /\ calls' = calls + 1
    /\ th'[p].pc # "idle"
    /\ th'[p].op = op

\* Every handle_confirmation_order that returned Ok returned the response
\* the store records for the transaction, and the transaction was written once.
C5_RecordedResponse ==
    /\ \A p \in Threads :
          (Done(p, "handle_confirmation_order") /\ th[p].ret.ok)
          => LET transaction_digest == order_digest(th[p].order)
             IN  /\ th[p].ret.value.certified_order # None
                 /\ th[p].ret.value = get_order_info(db, transaction_digest)
    /\ \A d \in DOMAIN commits : commits[d] = 1
    /\ DOMAIN commits = DOMAIN db.certificates

\* The response recorded for an executed transaction never changes, and a
\* handle_confirmation_order on an executed transaction returns at once,
\* with that response when its certificate is valid, and writes nothing.
C5_ReplayStep ==
    /\ \A d \in DOMAIN db.certificates : get_order_info(db', d) = get_order_info(db, d)
    /\ \A p \in Threads :
          (/\ Enters(p, "handle_confirmation_order")
           /\ order_digest(th'[p].order) \in DOMAIN db.certificates)
          => /\ th'[p].pc = "done"
             /\ db' = db
             /\ commits' = commits
             /\ IF th'[p].replay
                THEN th'[p].ret = Ok(get_order_info(db, order_digest(th'[p].order)))
                ELSE th'[p].ret = Err(Error("InvalidCertificate"))

\* C5: idempotent confirmation, sequential replay.  handle_confirmation_order
\* called again and again with the same valid certificate returns the same
\* response every time; only the first call writes: objects, locks,
\* certificate and effects are unchanged by every later call.
C5_IdempotentConfirmation == []C5_RecordedResponse /\ [][C5_ReplayStep]_vars

\* A handle_confirmation_order has returned the recorded response of a
\* transaction that an earlier call had executed.
C5_Witness ==
    \E p \in Threads :
        /\ Done(p, "handle_confirmation_order") /\ th[p].ret.ok
        /\ th[p].replay
        /\ commits[order_digest(th[p].order)] = 1

\* C6: idempotent confirmation under concurrency.  When two
\* handle_confirmation_order calls for the same certificate interleave, the
\* persistent write of the transaction is applied exactly once: no
\* transaction has had update_state applied for it twice.
C6_WrittenOnce ==
    \A d \in DOMAIN commits : commits[d] = 1

\* Handler p commits, in this step, an execution that ended in status tag.
Commits(p, tag) ==
    /\ th[p].pc = "update_state"
    /\ th[p].status.tag = tag
    /\ th'[p].pc = "done"

\* The commit charges the gas object of handler p: the stored coin is the
\* input coin at its next version, less gas_used, which is more than 0.
GasCharged(p) ==
    LET gas_object == th[p].inputs[Len(th[p].inputs)]
        stored == db'.objects[gas_object.id]
    IN  /\ th[p].status.gas_used > 0
        /\ stored # None
        /\ stored.version = gas_object.version + 1
        /\ stored.balance = gas_object.balance - th[p].status.gas_used
        /\ stored.owner = gas_object.owner

\* The inputs of handler p other than the gas object.
OtherInputs(p) ==
    {th[p].inputs[i] : i \in 1..(Len(th[p].inputs) - 1)}

\* C7 as stated: the commit of an execution that ended in Failure has the
\* gas object at a new version with a deduction gas_used > 0, and no input
\* other than the gas object changes version or content.
C7_OnlyGasChanges ==
    [][\A p \in Threads :
          Commits(p, "Failure")
          => /\ GasCharged(p)
             /\ \A object \in OtherInputs(p) :
                   db'.objects[object.id] = object]_vars

\* C7, amended: the commit of an execution that ended in Failure has the
\* gas object at a new version with a deduction gas_used > 0; every other
\* mutable input is stored with its content unchanged at its next version,
\* and a read-only input is stored as it was.
C7_GasOnFailure ==
    [][\A p \in Threads :
          Commits(p, "Failure")
          => /\ GasCharged(p)
             /\ \A object \in OtherInputs(p) :
                   db'.objects[object.id] =
                       IF is_read_only(object) THEN object
                       ELSE [object EXCEPT !.version = object.version + 1]]_vars

\* A call that aborted after it wrote its object arguments is committed with
\* the Failure status; the order has mutable inputs other than the gas coin.
C7_Witness ==
    \E p \in Threads :
        /\ Done(p, "handle_confirmation_order") /\ th[p].ret.ok
        /\ ~th[p].replay
        /\ th[p].order.data.kind = "Call"
        /\ th[p].ret.value.signed_effects.status.tag = "Failure"
        /\ th[p].ret.value.signed_effects.status.error = Error("MoveAbort")

\* Handler p holds the outcome of an execution that ended in status tag.
Executed(p, tag) ==
    /\ th[p].pc \in {"get_unwrapped_object_ids", "update_state"}
    /\ th[p].status.tag = tag

\* C8: mutated-input invariant.  After an execution that ended in Success,
\* every mutable input that the execution did not delete is in the write set
\* at a version strictly higher than the version consumed, also when the
\* execution did not change it.
C8_MutatedInputs ==
    \A p \in Threads :
        Executed(p, "Success")
        => \A i \in DOMAIN th[p].inputs :
              LET object == th[p].inputs[i]
              IN  (~is_read_only(object) /\ object.id \notin DOMAIN th[p].temp.deleted)
                  => /\ object.id \in DOMAIN written(th[p].temp)
                     /\ written(th[p].temp)[object.id].version > object.version

\* A successful call deleted B and did not touch A: A is in the write set,
\* unchanged but for its version, which is the next one.
C8_Witness ==
    \E p \in Threads :
        /\ Executed(p, "Success")
        /\ th[p].order.data.kind = "Call"
        /\ "B" \in DOMAIN th[p].temp.deleted
        /\ \E i \in DOMAIN th[p].inputs :
              /\ th[p].inputs[i].id = "A"
              /\ written(th[p].temp)["A"] =
                     [th[p].inputs[i] EXCEPT !.version = th[p].inputs[i].version + 1]

\* The errors that an execution reports in a Failure status.
ExecutionErrors ==
    {Error("InsufficientGas"), Error("CannotTransferReadOnlyObject"),
     Error("MoveAbort"), Error("OutOfGas")}

\* No handle_confirmation_order has returned, as the error of the call, the
\* error of a failed execution; and every transaction whose recorded effects
\* carry a Failure status has its certificate recorded as well.  (check_locks
\* reports InsufficientGas inside its list of errors, never on its own.)
C9_FailureIsRecorded ==
    /\ \A p \in Threads :
          (Done(p, "handle_confirmation_order") /\ ~th[p].ret.ok)
          => th[p].ret.error \notin ExecutionErrors
    /\ \A d \in DOMAIN db.signed_effects :
          db.signed_effects[d].status.tag = "Failure"
          => /\ d \in DOMAIN db.certificates
             /\ db.certificates[d].order.data = d

\* The commit of a failed execution returns Ok with the response that is
\* recorded: the certificate and the signed effects with the Failure status;
\* the record stays as it is; and a later call with the certificate returns
\* Ok with that record.
C9_FailureStep ==
    /\ \A p \in Threads :
          Commits(p, "Failure")
          => LET transaction_digest == order_digest(th[p].order)
             IN  /\ th'[p].ret.ok
                 /\ th'[p].ret.value = get_order_info(db', transaction_digest)
                 /\ th'[p].ret.value.certified_order = MkCertificate(th[p].order, TRUE)
                 /\ th'[p].ret.value.signed_effects = th[p].effects
                 /\ th[p].effects.status = th[p].status
    /\ \A d \in DOMAIN db.signed_effects :
          db.signed_effects[d].status.tag = "Failure"
          => get_order_info(db', d) = get_order_info(db, d)
    /\ \A p \in Threads :
          (/\ Enters(p, "handle_confirmation_order")
           /\ th'[p].replay
           /\ db.signed_effects[order_digest(th'[p].order)].status.tag = "Failure")
          => th'[p].ret = Ok(get_order_info(db, order_digest(th'[p].order)))

\* C9: an execution failure is a successful protocol outcome.  When the
\* execution ends in Failure, handle_confirmation_order returns Ok with a
\* response, not an error; the certificate and the signed effects with the
\* Failure status are persisted; a later replay of the certificate returns
\* that same response.
C9_FailureIsOk == []C9_FailureIsRecorded /\ [][C9_FailureStep]_vars

\* A transfer that the gas coin could not pay was committed as a Failure,
\* and a later call with its certificate has returned the recorded response.
C9_Witness ==
    \E p \in Threads :
        /\ Done(p, "handle_confirmation_order") /\ th[p].ret.ok
        /\ th[p].replay
        /\ th[p].order.data.kind = "Transfer"
        /\ th[p].ret.value.signed_effects.status.tag = "Failure"
        /\ th[p].ret.value.signed_effects.status.error = Error("InsufficientGas")
        /\ th[p].ret.value.certified_order.order = th[p].order

\* The transactions that have a parent entry: those that wrote or deleted
\* an object version.
Writers(store) ==
    {store.parent_sync[r] : r \in DOMAIN store.parent_sync} \ {GENESIS}

\* The store holds the certificate of a transaction exactly when it holds
\* its signed effects and exactly when it holds object versions written by
\* it; the new gas reference of the effects is one of these versions, and
\* every stored object is a version written by genesis or by a recorded
\* transaction.
C10_AllOrNone ==
    /\ DOMAIN db.certificates = DOMAIN db.signed_effects
    /\ DOMAIN db.certificates = Writers(db)
    /\ \A d \in DOMAIN db.signed_effects :
          /\ db.signed_effects[d].gas_object # None
          /\ get_parent(db, db.signed_effects[d].gas_object) = d
    /\ \A id \in DOMAIN db.objects :
          db.objects[id] # None
          => get_parent(db, to_object_reference(db.objects[id]))
                 \in DOMAIN db.certificates \cup {GENESIS}

\* The tables of objects, parents, certificates and effects change only in
\* the update_state step of a handler, and that step stores the whole write
\* set, the deletions, the parent entries, the certificate and the effects.
C10_CommitStep ==
    /\ (\/ db'.objects # db.objects
        \/ db'.parent_sync # db.parent_sync
        \/ db'.certificates # db.certificates
        \/ db'.signed_effects # db.signed_effects)
       => \E p \in Threads : th[p].pc = "update_state" /\ th'[p].pc = "done"
    /\ \A p \in Threads :
          (th[p].pc = "update_state" /\ th'[p].pc = "done")
          => LET transaction_digest == order_digest(th[p].order)
                 w == written(th[p].temp)
             IN  /\ Get(db'.certificates, transaction_digest) = MkCertificate(th[p].order, TRUE)
                 /\ Get(db'.signed_effects, transaction_digest) = th[p].effects
                 /\ \A id \in DOMAIN w :
                       /\ db'.objects[id] = w[id]
                       /\ get_parent(db', to_object_reference(w[id])) = transaction_digest
                 /\ \A id \in DOMAIN th[p].temp.deleted :
                       /\ db'.objects[id] = None
                       /\ get_parent(db', tombstone(id, th[p].temp.deleted[id]))
                              = transaction_digest

\* C10: the commit of handle_confirmation_order is atomic.  In every
\* reachable state, a crash at any point of the call included, the store
\* holds for a transaction either none of its object writes, its certificate
\* and its signed effects, or all of them.
C10_AtomicCommit == []C10_AllOrNone /\ [][C10_CommitStep]_vars

\* A crash has lost a call in progress after another call had committed a
\* transaction: every handler is idle again and the store holds the
\* committed transaction whole.
C10_Witness ==
    /\ \A p \in Threads : th[p].pc = "idle"
    /\ calls > Cardinality(DOMAIN commits)
    /\ \E d \in DOMAIN db.certificates :
          /\ d \in DOMAIN db.signed_effects
          /\ d \in Writers(db)
          /\ \E id \in DOMAIN db.objects :
                db.objects[id] # None /\ db.objects[id].previous_transaction = d

\* The tables that hold the locks, the objects, the certificates and the effects.
Persisted(store) ==
    <<store.order_lock, store.objects, store.certificates, store.signed_effects>>

\* Handler p is where it was, with the order and the returned value it had.
Same(p) ==
    /\ th'[p].pc = th[p].pc
    /\ th'[p].order = th[p].order
    /\ th'[p].ret = th[p].ret

\* Handler p takes a step of a call of op: it moves, or it is the one that
\* received the request of this step.
StepOf(p, op) ==
    /\ th'[p].pc # "idle"
    /\ th'[p].op = op
    /\ \/ ~Same(p)
       \/ /\ th[p].pc \in {"idle", "done"}
          /\ calls' # calls
          /\ \A q \in Threads \ {p} : Same(q)

\* The errors handle_order returns.
HandleOrderErrors ==
    {"InvalidSignature", "ObjectInputArityViolation", "DuplicateObjectRefInput",
     "LockErrors", "LockConflict"}

\* C11: whenever handle_order returns an error (invalid signature, empty or
\* duplicate inputs, aggregate LockErrors, or a lock conflict), the lock
\* table, the object store, the certificates and the effects are as they
\* were before the call: the step that returns the error changes none of
\* them, the error is one of those listed, and a step of handle_order that
\* changes one of them is followed by the return of Ok.
C11_ErrorLeavesStore ==
    [][\A p \in Threads :
          StepOf(p, "handle_order")
          => /\ (th'[p].pc = "done" /\ ~th'[p].ret.ok)
                => /\ Persisted(db') = Persisted(db)
                   /\ th[p].pc \in {"idle", "done", "set_order_lock"}
                   /\ th'[p].ret.error.tag \in HandleOrderErrors
             /\ (Persisted(db') # Persisted(db)) => th'[p].pc = "make_order_info"
             /\ (th[p].pc = "make_order_info") => th'[p].ret.ok]_vars

\* A handle_order has returned a lock conflict in a store that holds the
\* lock of another order on the same reference.
C11_Witness ==
    \E p \in Threads :
        /\ Done(p, "handle_order") /\ ~th[p].ret.ok
        /\ th[p].ret.error.tag = "LockConflict"
        /\ \E r \in MoveObjectRefs(th[p].order) :
              /\ Get(db.order_lock, r) # None
              /\ Get(db.order_lock, r) # SignedOrder_new(th[p].order, AuthorityName)

\* The errors handle_confirmation_order returns: of the certificate check,
\* of check_locks and of the adapter.
HandleConfirmationErrors ==
    {"InvalidCertificate", "LockErrors", "FunctionNotFound"}

\* C12: whenever handle_confirmation_order returns an error (invalid
\* certificate, a failed input check against the current store, or an error
\* of the execution adapter), the call has persisted nothing: the step that
\* returns the error leaves the whole store as it is and ends the call (no
\* retry), and the only step of the call that writes is the update_state
\* that returns Ok.
C12_ErrorPersistsNothing ==
    [][\A p \in Threads :
          StepOf(p, "handle_confirmation_order")
          => /\ (th'[p].pc = "done" /\ ~th'[p].ret.ok)
                => /\ db' = db
                   /\ commits' = commits
                   /\ th[p].pc \in {"idle", "done", "check_locks"}
                   /\ th'[p].ret.error.tag \in HandleConfirmationErrors
             /\ (db' # db)
                => /\ th[p].pc = "update_state"
                   /\ th'[p].pc = "done"
                   /\ th'[p].ret.ok]_vars

\* A handle_confirmation_order has returned the error of the adapter for a
\* call of a function the package does not have; the store holds neither
\* its certificate nor its effects, and the gas coin is untouched.
C12_Witness ==
    \E p \in Threads :
        /\ Done(p, "handle_confirmation_order") /\ ~th[p].ret.ok
        /\ th[p].ret.error.tag = "FunctionNotFound"
        /\ order_digest(th[p].order) \notin DOMAIN db.certificates
        /\ order_digest(th[p].order) \notin DOMAIN db.signed_effects
        /\ CurrentRef(db, "G") = gas_payment_object_ref(th[p].order)

\* The order of the scenario: alice transfers A at version 0 to bob and pays
\* with the gas coin G at version 0.
ScenarioOrder == MkOrder(TransferOrder(GenesisStore, "alice", "bob", "A"), "alice")

\* The store after the scenario, but for the dependencies: A at version 1
\* owned by bob, G at version 1 less the gas used, both stamped with the
\* transaction; every other object as at genesis; the parent entries of the
\* transaction are those of the new A and G; the effects report Success.
ScenarioOutcome(response) ==
    LET d == order_digest(ScenarioOrder)
        a == GenesisObjects["A"]
        g == GenesisObjects["G"]
        effects == response.signed_effects
    IN  /\ response.certified_order = MkCertificate(ScenarioOrder, TRUE)
        /\ effects.status.tag = "Success"
        /\ effects.status.gas_used = calculate_object_transfer_cost(a)
        /\ db.objects["A"] = [a EXCEPT !.version = 1, !.owner = "bob",
                                       !.previous_transaction = d]
        /\ db.objects["G"] = [g EXCEPT !.version = 1,
                                       !.balance = g.balance - effects.status.gas_used,
                                       !.previous_transaction = d]
        /\ \A id \in DOMAIN db.objects \ {"A", "G"} :
              db.objects[id] = GenesisStore.objects[id]
        /\ {r \in DOMAIN db.parent_sync : db.parent_sync[r] = d}
              = {CurrentRef(db, "A"), CurrentRef(db, "G")}
        /\ effects.gas_object = CurrentRef(db, "G")

\* Handler p has returned from the confirmation that executed the scenario.
ScenarioConfirmed(p) ==
    /\ Done(p, "handle_confirmation_order")
    /\ th[p].ret.ok
    /\ ~th[p].replay
    /\ th[p].order = ScenarioOrder

\* C13 as stated: after the scenario the store holds A at version 1 owned
\* by bob and G at version 1 with the gas used deducted, the write set is
\* {A, G}, and the signed effects have the prior transactions of A and of G
\* among their dependencies.
C13_TransferWithPriorTransactions ==
    \A p \in Threads :
        ScenarioConfirmed(p)
        => /\ ScenarioOutcome(th[p].ret.value)
           /\ {GenesisObjects["A"].previous_transaction,
               GenesisObjects["G"].previous_transaction}
                 \subseteq th[p].ret.value.signed_effects.dependencies

\* The commit of a transfer that succeeded stores the transferred object
\* with its new owner and the gas coin less the gas used, both at their next
\* version and stamped with the transaction, changes no other object, and
\* signs as dependencies the prior transactions of the two inputs other
\* than the genesis digest.
C13_TransferStep ==
    \A p \in Threads :
        (Commits(p, "Success") /\ th[p].order.data.kind = "Transfer")
        => LET d == order_digest(th[p].order)
               x == th[p].inputs[1]
               g == th[p].inputs[2]
           IN  /\ Len(th[p].inputs) = 2
               /\ db'.objects[x.id] =
                      [x EXCEPT !.version = x.version + 1,
                                !.owner = th[p].order.data.recipient,
                                !.previous_transaction = d]
               /\ db'.objects[g.id] =
                      [g EXCEPT !.version = g.version + 1,
                                !.balance = g.balance - th[p].status.gas_used,
                                !.previous_transaction = d]
               /\ \A id \in DOMAIN db.objects \ {x.id, g.id} :
                     db'.objects[id] = db.objects[id]
               /\ db'.signed_effects[d].dependencies =
                      {x.previous_transaction, g.previous_transaction} \ {GENESIS}

\* The scenario ends as stated, with the dependencies the code signs: the
\* prior transactions of A and G other than the genesis digest, which for
\* these two genesis objects is none.
C13_Scenario ==
    \A p \in Threads :
        ScenarioConfirmed(p)
        => /\ ScenarioOutcome(th[p].ret.value)
           /\ th[p].ret.value.signed_effects.dependencies =
                 {GenesisObjects["A"].previous_transaction,
                  GenesisObjects["G"].previous_transaction} \ {GENESIS}

\* C13, amended: transfer end-to-end.  From A at version 0 and G at version
\* 0, both owned by alice, after alice's transfer of A to bob is locked and
\* its certificate confirmed, the store holds A at version 1 owned by bob
\* and G at version 1 with the gas used deducted, the write set is {A, G},
\* and the signed effects record as dependencies the prior transactions of
\* A and G other than the genesis digest.
C13_TransferEndToEnd == []C13_Scenario /\ [][C13_TransferStep]_vars

\* The scenario has run: the order was locked by handle_order and then
\* confirmed, and the response carries the signed order, the certificate
\* and the effects.
C13_Witness ==
    \E p \in Threads :
        /\ ScenarioConfirmed(p)
        /\ th[p].ret.value.signed_order = SignedOrder_new(ScenarioOrder, AuthorityName)
        /\ Get(db.order_lock, CurrentRef(GenesisStore, "A"))
              = SignedOrder_new(ScenarioOrder, AuthorityName)
        /\ db.objects["A"].owner = "bob"
        /\ db.objects["A"].version = 1
        /\ db.objects["G"].version = 1

\* The references of the order whose slot holds another order.
LockedByOther(store, order) ==
    {r \in MoveObjectRefs(order) :
        Get(store.order_lock, r) \notin {None, SignedOrder_new(order, AuthorityName)}}

\* The order is signed by its sender and has inputs, none of them twice.
WellFormed(order) ==
    /\ check_signature(order)
    /\ order.data.inputs # << >>
    /\ \A i, j \in DOMAIN order.data.inputs :
          kind_object_id(order.data.inputs[i]) = kind_object_id(order.data.inputs[j])
          => i = j

\* The references among refs that are current (the store holds the object at
\* this version and digest) and whose object is owned neither by the sender
\* of the order nor by an object among its inputs.
NotOwned(store, order, refs) ==
    {r \in refs :
        /\ Get(store.objects, r[1]) # None
        /\ to_object_reference(store.objects[r[1]]) = r
        /\ store.objects[r[1]].owner # sender_address(order)
        /\ store.objects[r[1]].owner \notin
              {kind_object_id(order.data.inputs[i]) : i \in DOMAIN order.data.inputs}}

\* The tags of the errors of an aggregate LockErrors.
ErrorTags(error) == {error.errors[i].tag : i \in DOMAIN error.errors}

\* C14 as stated: a handle_order for a signed order by a sender that does
\* not own an object whose current reference is locked to another order has
\* returned LockConflict.
C14_ConflictForOtherSender ==
    \A p \in Threads :
        (/\ Done(p, "handle_order")
         /\ WellFormed(th[p].order)
         /\ NotOwned(db, th[p].order, LockedByOther(db, th[p].order)) # {})
        => /\ ~th[p].ret.ok
           /\ th[p].ret.error.tag = "LockConflict"

\* C14, amended: with A@0, the current version of A, locked to Order1,
\* handle_order for another Order2 that references A@0 fails and leaves the
\* lock table as it is, A's slot with Order1.  When Order2 has passed the checks of its
\* inputs, which the order of a sender that does not own A never does, the
\* error is LockConflict and names Order1; when Order2 is well formed and
\* sent by a sender that does not own A, the error is the aggregate
\* LockErrors with IncorrectSigner in it.
C14_LockedToOrder1 ==
    [][\A p \in Threads :
          (/\ StepOf(p, "handle_order")
           /\ th[p].pc # "make_order_info"
           /\ th'[p].pc \in {"done", "make_order_info"}
           /\ LockedByOther(db, th'[p].order) # {})
          => LET order == th'[p].order
                 taken == LockedByOther(db, order)
             IN  /\ th'[p].pc = "done"
                 /\ ~th'[p].ret.ok
                 /\ db'.order_lock = db.order_lock
                 /\ (th[p].pc = "set_order_lock")
                    => /\ th'[p].ret.error.tag = "LockConflict"
                       /\ th'[p].ret.error.pending_confirmation
                             = {db.order_lock[r].order : r \in taken}
                       /\ NotOwned(db, order, taken) = {}
                 /\ (/\ th[p].pc # "set_order_lock"
                     /\ WellFormed(order)
                     /\ NotOwned(db, order, taken) # {})
                    => /\ th'[p].ret.error.tag = "LockErrors"
                       /\ "IncorrectSigner" \in ErrorTags(th'[p].ret.error)]_vars

\* A@0 is locked to alice's transfer and bob's order on A@0 was refused with
\* the aggregate of the input checks; the slot of A@0 holds alice's order.
C14_Witness ==
    \E p \in Threads :
        /\ Done(p, "handle_order") /\ ~th[p].ret.ok
        /\ sender_address(th[p].order) = "bob"
        /\ WellFormed(th[p].order)
        /\ th[p].ret.error.tag = "LockErrors"
        /\ "IncorrectSigner" \in ErrorTags(th[p].ret.error)
        /\ \E r \in LockedByOther(db, th[p].order) :
              /\ r[1] = "A" /\ r[2] = 0
              /\ sender_address(db.order_lock[r].order) = "alice"

\* The references of the order to a stored object at a version that is not
\* the stored one.
WrongVersion(store, order) ==
    {r \in MoveObjectRefs(order) :
        /\ Get(store.objects, r[1]) # None
        /\ r[2] # store.objects[r[1]].version}

\* The errors of an aggregate LockErrors, as a set.
ErrorsOf(error) == {error.errors[i] : i \in DOMAIN error.errors}

\* C15: handle_order for a well-formed order that references an object at a
\* version other than the stored one (A at version 1 while the store holds
\* A at version 0) fails at once; the error, which arrives in the aggregate
\* LockErrors, is UnexpectedSequenceNumber for that object with the stored
\* version; and no lock slot, of any object at any version, is created or
\* changed.
C15_UnexpectedSequenceNumber ==
    [][\A p \in Threads :
          (/\ StepOf(p, "handle_order")
           /\ th[p].pc \in {"idle", "done"}
           /\ WellFormed(th'[p].order)
           /\ WrongVersion(db, th'[p].order) # {})
          => /\ th'[p].pc = "done"
             /\ ~th'[p].ret.ok
             /\ th'[p].ret.error.tag = "LockErrors"
             /\ \A r \in WrongVersion(db, th'[p].order) :
                   [tag |-> "UnexpectedSequenceNumber", object_id |-> r[1],
                    expected_sequence |-> db.objects[r[1]].version]
                       \in ErrorsOf(th'[p].ret.error)
             /\ db'.order_lock = db.order_lock]_vars

\* An order of alice that names A at version 1 and the current gas coin was
\* refused, for A only, while the store holds A at version 0 and no slot
\* of A is locked.
C15_Witness ==
    \E p \in Threads :
        /\ Done(p, "handle_order") /\ ~th[p].ret.ok
        /\ db.objects["A"].version = 0
        /\ \E r \in MoveObjectRefs(th[p].order) : r[1] = "A" /\ r[2] = 1
        /\ th[p].ret.error =
              [tag |-> "LockErrors",
               errors |-> <<[tag |-> "UnexpectedSequenceNumber", object_id |-> "A",
                             expected_sequence |-> 0]>>]
        /\ \A r \in DOMAIN db.order_lock : r[1] = "A" => db.order_lock[r] = None

\* The ids of the inputs of the order that the table holds as mutable objects.
MutableInputIds(order, objects) ==
    {id \in {kind_object_id(order.data.inputs[i]) : i \in DOMAIN order.data.inputs} :
        Get(objects, id) # None /\ ~is_read_only(objects[id])}

\* The error of the i-th input of the order against the table of objects:
\* ObjectNotFound when the object is missing, the error of its consistency
\* check when it fails, None when the input is good.
InputError(order, objects, i) ==
    LET object_kind == order.data.inputs[i]
        object == Get(objects, kind_object_id(object_kind))
        result == check_one_lock(order, object_kind, object,
                                 MutableInputIds(order, objects))
    IN  IF object = None
        THEN ObjectError("ObjectNotFound", kind_object_id(object_kind))
        ELSE IF result.ok THEN None ELSE result.error

\* The errors of the first n inputs, one for each bad input, in input order.
RECURSIVE InputErrors(_, _, _)
InputErrors(order, objects, n) ==
    IF n = 0 THEN << >>
    ELSE LET e == InputError(order, objects, n)
         IN  IF e = None THEN InputErrors(order, objects, n - 1)
             ELSE Append(InputErrors(order, objects, n - 1), e)

\* Handler p receives an order in this step; check_locks returns the
\* aggregate LockErrors, with exactly the errors of the bad inputs in input
\* order, if and only if at least one input is bad.
Aggregated(p) ==
    LET order == th'[p].order
        errors == InputErrors(order, db.objects, Len(order.data.inputs))
    IN  IF errors # << >>
        THEN /\ th'[p].pc = "done"
             /\ th'[p].ret = Err([tag |-> "LockErrors", errors |-> errors])
        ELSE \/ th'[p].pc # "done"
             \/ th'[p].ret.ok
             \/ th'[p].ret.error.tag # "LockErrors"

\* C16 as stated: for every order that reaches check_locks, LockErrors is
\* returned if and only if at least one input is missing or fails its
\* check, and it holds one error for each such input, in input order.
C16_AggregatesAlways ==
    [][\A p \in Threads :
          (/\ StepOf(p, "handle_order")
           /\ th[p].pc \in {"idle", "done"}
           /\ check_signature(th'[p].order))
          => Aggregated(p)]_vars

\* C16, amended: error aggregation.  For an order that has inputs and names
\* no object id twice, check_locks does not stop at the first bad input:
\* it returns LockErrors if and only if at least one input is missing from
\* the store or fails its consistency check, with exactly one error for
\* each such input (ObjectNotFound for a missing one) in input order.
C16_ErrorAggregation ==
    [][\A p \in Threads :
          (/\ StepOf(p, "handle_order")
           /\ th[p].pc \in {"idle", "done"}
           /\ WellFormed(th'[p].order))
          => Aggregated(p)]_vars

\* check_locks has returned three errors for an order with four inputs: the
\* unknown object, the wrong version of A and the missing package, in this
\* order, and none for the gas coin.
C16_Witness ==
    \E p \in Threads :
        /\ Done(p, "handle_order") /\ ~th[p].ret.ok
        /\ Len(th[p].order.data.inputs) = 4
        /\ th[p].ret.error =
              [tag |-> "LockErrors",
               errors |-> <<ObjectError("ObjectNotFound", UnknownID),
                            [tag |-> "UnexpectedSequenceNumber", object_id |-> "A",
                             expected_sequence |-> db.objects["A"].version],
                            ObjectError("ObjectNotFound", PublishedID)>>]

\* The digests for which the store holds a recorded response: a signed
\* order or an executed certificate.
Recorded(store) == DOMAIN store.signed_orders \cup DOMAIN store.certificates

\* C17: idempotent re-submission.  Whenever a response is recorded for the
\* digest of a correctly signed order, handle_order returns that recorded
\* response, also after the certificate of the order has been executed at
\* this authority and its inputs have advanced to new versions.
C17_ReturnsRecordedResponse ==
    \A p \in Threads :
        (/\ Done(p, "handle_order")
         /\ check_signature(th[p].order)
         /\ order_digest(th[p].order) \in Recorded(db))
        => th[p].ret = Ok(get_order_info(db, order_digest(th[p].order)))

\* The order names a version of an object that no commit has written yet.
NamesFutureVersion(store, order) ==
    \E r \in MoveObjectRefs(order) :
        \/ r[1] \notin DOMAIN store.objects
        \/ store.objects[r[1]] = None
        \/ store.objects[r[1]].version < r[2]

\* A handle_order for an order that names a version not yet committed
\* fails input resolution and leaves the store as it is.
C18_NewOrderFails ==
    \A p \in Threads :
        (/\ StepOf(p, "handle_order")
         /\ th[p].pc \in {"idle", "done"}
         /\ WellFormed(th'[p].order)
         /\ NamesFutureVersion(db, th'[p].order))
        => /\ th'[p].pc = "done"
           /\ ~th'[p].ret.ok
           /\ th'[p].ret.error.tag = "LockErrors"
           /\ db' = db

\* A lock slot that is set in this step belongs to the reference of the
\* object as the store holds it at this moment.
C18_LockStep ==
    \A r \in DOMAIN db'.order_lock :
        (db'.order_lock[r] # None /\ Get(db.order_lock, r) = None)
        => /\ db.objects[r[1]] # None
           /\ to_object_reference(db.objects[r[1]]) = r

\* C18: confirmation racing with submission.  Until the confirmation of T
\* has committed, every handle_order for a new order that names an output
\* version of T fails input resolution and locks nothing; and a lock slot
\* is only ever set for a reference whose version and digest are those of
\* the stored object at the moment of locking.
C18_LocksOnlyCurrent == [][C18_NewOrderFails /\ C18_LockStep]_vars

\* The first half of C18 alone.
C18_FailsUntilCommit == [][C18_NewOrderFails]_vars

\* The stored version of an object does not decrease in this step.
VersionGrows(id) ==
    (db.objects[id] # None /\ db'.objects[id] # None)
    => db'.objects[id].version >= db.objects[id].version

\* An object that keeps its version in this step keeps its content.
WrittenOnce(id) ==
    (/\ db.objects[id] # None /\ db'.objects[id] # None
     /\ db'.objects[id].version = db.objects[id].version)
    => db'.objects[id] = db.objects[id]

\* This step is the commit of an execution.
CommitStep ==
    \E p \in Threads :
        /\ th[p].pc = "update_state"
        /\ Done(p, "handle_confirmation_order")'
        /\ th'[p].ret.ok

\* C19: across any sequence of handle_order and handle_confirmation_order
\* calls the stored version of each object id never decreases, an
\* (id, version) once written is never altered in place, and only a
\* committed execution changes an object.
C19_AppendByVersion ==
    [][/\ \A id \in DOMAIN db.objects : VersionGrows(id) /\ WrittenOnce(id)
       /\ (db'.objects # db.objects => CommitStep)]_vars

\* The references a commit writes: of the objects written and the
\* tombstones of the objects deleted.
WrittenRefs(temporary_store) ==
    {to_object_reference(temporary_store.written[id]) :
        id \in DOMAIN temporary_store.written}
    \cup {tombstone(id, temporary_store.deleted[id]) :
            id \in DOMAIN temporary_store.deleted}

\* The commit of transaction T maps every version it writes to the digest
\* of T and makes the certificate of T readable; no step removes or
\* changes a parent entry or a certificate.
C20_ProvenanceStep ==
    /\ \A p \in Threads :
          (/\ th[p].pc = "update_state"
           /\ Done(p, "handle_confirmation_order")'
           /\ th'[p].ret.ok)
          => /\ \A r \in WrittenRefs(th[p].temp) :
                    get_parent(db', r) = order_digest(th[p].order)
             /\ read_certificate(db', order_digest(th[p].order)) # None
             /\ read_certificate(db', order_digest(th[p].order)).order = th[p].order
    /\ \A r \in DOMAIN db.parent_sync : get_parent(db', r) = db.parent_sync[r]
    /\ \A d \in DOMAIN db.certificates : read_certificate(db', d) = db.certificates[d]

\* Every parent entry that is not of genesis names a transaction whose
\* certificate is readable.
C20_EntriesHaveCertificates ==
    \A r \in DOMAIN db.parent_sync :
        db.parent_sync[r] # GENESIS
        => /\ read_certificate(db, db.parent_sync[r]) # None
           /\ order_digest(read_certificate(db, db.parent_sync[r]).order)
                 = db.parent_sync[r]

\* A handle_object_info_request never fails with CertificateNotfound, and
\* its response for a version written by T holds the certificate of T.
C20_RequestReturnsCertificate ==
    \A p \in Threads :
        Done(p, "handle_object_info_request")
        => /\ th[p].ret.ok
           /\ LET response == th[p].ret.value
                   ref == response.requested_object_reference
              IN  ref # None
                  => /\ ref[1] = th[p].request.object_id
                     /\ th[p].request.request_sequence_number # None
                        => ref[2] = th[p].request.request_sequence_number.some
                     /\ IF get_parent(db, ref) = GENESIS
                        THEN response.parent_certificate = None
                        ELSE /\ response.parent_certificate # None
                             /\ response.parent_certificate
                                   = read_certificate(db, get_parent(db, ref))
                             /\ order_digest(response.parent_certificate.order)
                                   = get_parent(db, ref)

\* A request for a version that the parent table holds finds its entry.
C20_RequestStep ==
    \A p \in Threads :
        (/\ th[p].pc \in {"idle", "done"}
         /\ th'[p].pc \notin {"idle", "done"}
         /\ th'[p].op = "handle_object_info_request"
         /\ get_parent_iterator(db, th'[p].request.object_id,
                                th'[p].request.request_sequence_number) # {})
        => th'[p].ref_and_digest # None

\* C20: provenance is always recoverable.  For every object version
\* written by a committed transaction T the parent index maps that
\* (object id, version) to the digest of T and the certificate of T is
\* readable, so handle_object_info_request for that object id and sequence
\* number returns the certificate of T as parent_certificate and never
\* fails with CertificateNotfound.
C20_ProvenanceRecoverable ==
    /\ [](C20_EntriesHaveCertificates /\ C20_RequestReturnsCertificate)
    /\ [][C20_ProvenanceStep /\ C20_RequestStep]_vars

\* A request for object A at a version that a committed transfer wrote has
\* returned the certificate of that transfer.
C20_Witness ==
    \E p \in Threads :
        /\ Done(p, "handle_object_info_request") /\ th[p].ret.ok
        /\ th[p].request.request_sequence_number # None
        /\ th[p].request.request_sequence_number.some > 0
        /\ th[p].ret.value.parent_certificate # None
        /\ order_digest(th[p].ret.value.parent_certificate.order) \in DOMAIN commits
        /\ th[p].ret.value.requested_object_reference[2]
              = th[p].request.request_sequence_number.some

\* C21: handle_order verifies the signature of the order before anything
\* else.  An order whose signature does not verify against its declared
\* sender is rejected with InvalidSignature, whatever its inputs are, and
\* the call produces no SignedOrder and touches no lock: the store is as
\* it was.
C21_SignatureFirst ==
    [][\A p \in Threads :
          (/\ StepOf(p, "handle_order")
           /\ th[p].pc \in {"idle", "done"}
           /\ ~check_signature(th'[p].order))
          => /\ th'[p].pc = "done"
             /\ th'[p].ret = Err(Error("InvalidSignature"))
             /\ db' = db]_vars

\* handle_order has rejected with InvalidSignature an order that has no
\* input, which check_locks would have refused as well.
C21_Witness ==
    \E p \in Threads :
        /\ Done(p, "handle_order")
        /\ ~check_signature(th[p].order)
        /\ th[p].order.data.inputs = << >>
        /\ ~check_locks(th[p].order, db.objects).ok
        /\ th[p].ret = Err(Error("InvalidSignature"))

\* The certificates of the orders the store has seen or may receive whose
\* quorum does not verify against the committee.
InvalidCertificates(store) ==
    {c \in Certificates(InputOrders(store)) : ~certificate_check(c)}

\* C22: handle_confirmation_order rejects a certificate that fails
\* validation against the committee with InvalidCertificate.  The check
\* runs before the idempotence lookup and before any execution: the call
\* returns at once and changes nothing, also when the transaction digest
\* of the certificate has already been executed.
C22_CertificateFirst ==
    [][\A p \in Threads : \A c \in InvalidCertificates(db) :
          HandleConfirmation_MakeOrderInfo(p, {c})
          => /\ Done(p, "handle_confirmation_order")'
             /\ th'[p].ret = Err(Error("InvalidCertificate"))
             /\ db' = db /\ commits' = commits]_vars

\* An invalid certificate has been rejected with InvalidCertificate while
\* the store holds the executed certificate of the same transaction.
C22_Witness ==
    \E p \in Threads :
        /\ Done(p, "handle_confirmation_order")
        /\ th[p].ret = Err(Error("InvalidCertificate"))
        /\ order_digest(th[p].order) \in DOMAIN db.certificates
        /\ order_digest(th[p].order) \in DOMAIN commits

\* The error of an order that has no input or names an object id twice,
\* None for any other order.
ShapeError(order) ==
    LET inputs == order.data.inputs
    IN  IF inputs = << >> THEN Error("ObjectInputArityViolation")
        ELSE IF \E i, j \in DOMAIN inputs :
                   i # j /\ kind_object_id(inputs[i]) = kind_object_id(inputs[j])
        THEN Error("DuplicateObjectRefInput")
        ELSE None

\* The check of the inputs of handler p ends in this step: handle_order
\* starts on a correctly signed order, or handle_confirmation_order goes
\* past the idempotence check.
ChecksInputs(p) ==
    \/ /\ StepOf(p, "handle_order")
       /\ th[p].pc \in {"idle", "done"}
       /\ check_signature(th'[p].order)
    \/ /\ th[p].pc = "check_locks"
       /\ th'[p].pc # "check_locks"
       /\ th'[p].op = "handle_confirmation_order"
       /\ th'[p].order = th[p].order

\* C23: an order with no input objects is rejected with
\* ObjectInputArityViolation and an order with two inputs of the same
\* object id with DuplicateObjectRefInput, by handle_order (for a correctly
\* signed order) and by handle_confirmation_order (for a valid certificate
\* not executed before) alike, whatever the store holds for its inputs:
\* no lock is set and no execution starts, the store is as it was.
C23_ShapeChecksFirst ==
    [][\A p \in Threads :
          (ChecksInputs(p) /\ ShapeError(th'[p].order) # None)
          => /\ th'[p].pc = "done"
             /\ th'[p].ret = Err(ShapeError(th'[p].order))
             /\ db' = db /\ commits' = commits]_vars

\* handle_confirmation_order has rejected with DuplicateObjectRefInput an
\* order that names twice an object its sender does not own any more.
C23_Witness ==
    \E p \in Threads :
        /\ Done(p, "handle_confirmation_order")
        /\ th[p].ret = Err(Error("DuplicateObjectRefInput"))
        /\ \E i \in DOMAIN th[p].order.data.inputs :
              LET id == kind_object_id(th[p].order.data.inputs[i])
              IN  /\ db.objects[id].owner # th[p].order.data.sender
                  /\ ~is_read_only(db.objects[id])

\* Handler p executes in this step a transfer order that passed the checks
\* of its inputs.
ExecutesTransfer(p) ==
    /\ th[p].pc = "check_locks"
    /\ th'[p].pc # "check_locks"
    /\ th'[p].op = "handle_confirmation_order"
    /\ th[p].order.data.kind = "Transfer"
    /\ check_locks(th[p].order, db.objects).ok

\* The number of inputs of the order of handler p besides the gas object.
NonGasInputs(p) == Len(th[p].order.data.inputs) - 1

\* C24: the Transfer handler returns Failure(ObjectInputArityViolation)
\* with gas_used = MIN_OBJ_TRANSFER_GAS whenever the number of non-gas
\* inputs it is given is not exactly one, and transfers no object then.
C24_TransferArity ==
    [][\A p \in Threads :
          (ExecutesTransfer(p) /\ NonGasInputs(p) # 1)
          => /\ th'[p].pc = "get_unwrapped_object_ids"
             /\ th'[p].status = Failure(MIN_OBJ_TRANSFER_GAS,
                                        Error("ObjectInputArityViolation"))
             /\ \A id \in DOMAIN written(th'[p].temp) :
                    written(th'[p].temp)[id].owner = db.objects[id].owner]_vars

\* The gas object of the order of handler p, as the store holds it.
GasObject(p) == db.objects[gas_payment_object_ref(th[p].order)[1]]

\* Handler p has executed the transfer of one object, which is read-only;
\* inputs are the objects it resolved, the gas object last.
ReadOnlyTransferExecuted(p) ==
    /\ th[p].pc \in {"get_unwrapped_object_ids", "update_state"}
    /\ th[p].order.data.kind = "Transfer"
    /\ Len(th[p].inputs) = 2
    /\ is_read_only(th[p].inputs[1])

\* The execution ended in Failure(CannotTransferReadOnlyObject); the write
\* set holds the gas object alone, charged the minimum transfer gas.
ReadOnlyFailure(p) ==
    LET gas_object == th[p].inputs[2]
    IN  /\ th[p].status = Failure(MIN_OBJ_TRANSFER_GAS,
                                  Error("CannotTransferReadOnlyObject"))
        /\ DOMAIN written(th[p].temp) = {gas_object.id}
        /\ written(th[p].temp)[gas_object.id].balance
              = gas_object.balance - MIN_OBJ_TRANSFER_GAS

\* The commit of a transfer that ended in
\* Failure(CannotTransferReadOnlyObject) changes the gas object and nothing
\* else: the object keeps its owner and is not rewritten.
C25_CommitStep ==
    \A p \in Threads :
        (/\ th[p].pc = "update_state"
         /\ Done(p, "handle_confirmation_order")'
         /\ ReadOnlyTransferExecuted(p)
         /\ th[p].status.tag = "Failure"
         /\ th[p].status.error = Error("CannotTransferReadOnlyObject"))
        => /\ \A id \in DOMAIN db.objects \ {GasObject(p).id} :
                  db'.objects[id] = db.objects[id]
           /\ db'.objects[GasObject(p).id].balance
                 = GasObject(p).balance - MIN_OBJ_TRANSFER_GAS
           /\ db'.objects[GasObject(p).id].version = GasObject(p).version + 1

\* C25 as stated: every Transfer whose object is read-only ends in
\* Failure(CannotTransferReadOnlyObject); in the committed state the owner
\* of the object is unchanged, the object is not rewritten and only the
\* gas object is charged.
C25_ReadOnlyAlwaysRefused ==
    /\ [](\A p \in Threads : ReadOnlyTransferExecuted(p) => ReadOnlyFailure(p))
    /\ [][C25_CommitStep]_vars

\* C25, amended: a Transfer whose object is read-only and whose gas object
\* covers the transfer cost of the object ends in
\* Failure(CannotTransferReadOnlyObject): in the committed state the owner
\* of the object is unchanged, the object is not rewritten, and only the
\* gas object is charged, the minimum transfer gas (the gas write buffered
\* before the read-only check is discarded by the rollback).
C25_ReadOnlyTransfer ==
    /\ [](\A p \in Threads :
            (/\ ReadOnlyTransferExecuted(p)
             /\ th[p].inputs[2].balance
                   >= calculate_object_transfer_cost(th[p].inputs[1]))
            => ReadOnlyFailure(p))
    /\ [][C25_CommitStep]_vars

\* The transfer of the read-only R has been committed with
\* Failure(CannotTransferReadOnlyObject): R is as at genesis and the gas
\* coin has paid the minimum transfer gas, not the cost of R.
C25_Witness ==
    \E p \in Threads :
        /\ Done(p, "handle_confirmation_order") /\ th[p].ret.ok
        /\ th[p].ret.value.signed_effects.status
              = Failure(MIN_OBJ_TRANSFER_GAS, Error("CannotTransferReadOnlyObject"))
        /\ db.objects["R"] = GenesisObjects["R"]
        /\ db.objects["G"].balance = InitBalance - MIN_OBJ_TRANSFER_GAS
        /\ db.objects["G"].version = 1

\* Handler p has executed a transfer whose gas object does not cover the
\* transfer cost of the object, the last input before the gas object.
UncoveredTransferExecuted(p) ==
    /\ th[p].pc \in {"get_unwrapped_object_ids", "update_state"}
    /\ th[p].order.data.kind = "Transfer"
    /\ Len(th[p].inputs) >= 2
    /\ th[p].inputs[Len(th[p].inputs)].balance
          < calculate_object_transfer_cost(th[p].inputs[Len(th[p].inputs) - 1])

\* The Transfer handler, applied to the inputs handler p resolved, ends in
\* Failure(InsufficientGas) and returns the temporary store as it got it,
\* nothing written; the execution keeps the owner of the object.
TransferWritesNothing(p) ==
    LET inputs == th[p].inputs
        output_object == inputs[Len(inputs) - 1]
        temporary_store == TemporaryStore_new(inputs, order_digest(th[p].order))
        ran == transfer(temporary_store, SubSeq(inputs, 1, Len(inputs) - 1),
                        th[p].order.data.recipient, inputs[Len(inputs)])
    IN  /\ ran.result = Ok(Failure(MIN_OBJ_TRANSFER_GAS, Error("InsufficientGas")))
        /\ ran.store = temporary_store
        /\ written(ran.store) = << >>
        /\ th[p].status = ran.result.value
        /\ output_object.id \in DOMAIN written(th[p].temp)
           => written(th[p].temp)[output_object.id].owner = output_object.owner

\* The commit of a transfer that ended in Failure(InsufficientGas) changes
\* the owner of no object.
C26_CommitStep ==
    \A p \in Threads :
        (/\ th[p].pc = "update_state"
         /\ Done(p, "handle_confirmation_order")'
         /\ UncoveredTransferExecuted(p))
        => \A id \in Stored(db, DOMAIN db.objects) :
              /\ db'.objects[id] # None
              /\ db'.objects[id].owner = db.objects[id].owner

\* C26: when the gas object cannot cover the computed transfer cost of the
\* object, Transfer ends in Failure without writing the transferred object
\* and without changing its owner; the Transfer handler writes nothing to
\* the temporary store on this path.
C26_InsufficientGas ==
    /\ [](\A p \in Threads : UncoveredTransferExecuted(p) => TransferWritesNothing(p))
    /\ [][C26_CommitStep]_vars

\* The transfer of A, which costs more than the gas coin holds, has been
\* executed and is about to be committed with Failure(InsufficientGas).
C26_Witness ==
    \E p \in Threads :
        /\ th[p].pc = "update_state"
        /\ UncoveredTransferExecuted(p)
        /\ th[p].status = Failure(MIN_OBJ_TRANSFER_GAS, Error("InsufficientGas"))
        /\ th[p].inputs[1].id = "A"
        /\ db.objects["A"].owner = "alice"

\* C27: the dependency set that handle_confirmation_order places in the
\* signed effects is exactly the set of the previous_transaction digests
\* of the resolved input objects without the genesis sentinel digest: each
\* digest once, and no digest that is not the previous transaction of an
\* input.
C27_Dependencies ==
    \A p \in Threads :
        th[p].pc = "update_state"
        => /\ GENESIS \notin th[p].effects.dependencies
           /\ \A i \in DOMAIN th[p].inputs :
                 th[p].inputs[i].previous_transaction # GENESIS
                 => th[p].inputs[i].previous_transaction \in th[p].effects.dependencies
           /\ \A d \in th[p].effects.dependencies :
                 \E i \in DOMAIN th[p].inputs : th[p].inputs[i].previous_transaction = d

\* Effects have been signed for an order with three inputs: one still of
\* genesis and two written by the same earlier transaction, which is the
\* one dependency.
C27_Witness ==
    \E p \in Threads :
        /\ th[p].pc = "update_state"
        /\ Len(th[p].inputs) = 3
        /\ \E i, j, k \in DOMAIN th[p].inputs :
              /\ i # j
              /\ th[p].inputs[k].previous_transaction = GENESIS
              /\ th[p].inputs[i].previous_transaction # GENESIS
              /\ th[p].inputs[i].previous_transaction
                    = th[p].inputs[j].previous_transaction
              /\ th[p].effects.dependencies = {th[p].inputs[i].previous_transaction}

\* The i-th input of the order is a Move object that the table holds as
\* mutable, at the version and with the digest the order declares.
MutableInput(order, objects, i) ==
    LET object_kind == order.data.inputs[i]
        object == Get(objects, kind_object_id(object_kind))
    IN  /\ object_kind.tag = "MoveObject"
        /\ object # None
        /\ ~is_read_only(object)
        /\ to_object_reference(object) = object_kind.ref

\* The owner of the i-th input is the sender of the order, or the address
\* of another mutable object among the inputs.
OwnedBySenderOrAnother(order, objects, i) ==
    LET owner == objects[kind_object_id(order.data.inputs[i])].owner
    IN  \/ owner = order.data.sender
        \/ \E j \in DOMAIN order.data.inputs :
              /\ j # i
              /\ kind_object_id(order.data.inputs[j]) = owner
              /\ Get(objects, owner) # None
              /\ ~is_read_only(objects[owner])

\* The owner of the i-th input is the sender of the order, or the address
\* of a mutable object among the inputs, the i-th one included.
OwnedBySenderOrInput(order, objects, i) ==
    LET owner == objects[kind_object_id(order.data.inputs[i])].owner
    IN  \/ owner = order.data.sender
        \/ owner \in MutableInputIds(order, objects)

\* handle_order has returned the aggregate error with IncorrectSigner in
\* it, and no lock is held for the order.
RefusedAsIncorrectSigner(p) ==
    /\ ~th[p].ret.ok
    /\ th[p].ret.error.tag = "LockErrors"
    /\ \E e \in DOMAIN th[p].ret.error.errors :
          th[p].ret.error.errors[e] = Error("IncorrectSigner")
    /\ \A r \in DOMAIN db.order_lock :
          db.order_lock[r] # SignedOrder_new(th[p].order, AuthorityName)

\* C28: check_locks accepts a mutable object input only if its owner is
\* the sender of the order or the address of another mutable object among
\* the inputs: an order that handle_order is about to lock has no other
\* mutable input, and a correctly signed, well-shaped order with such an
\* input is answered with the aggregate error that holds IncorrectSigner,
\* and locks nothing.
C28_OwnerOrDelegate ==
    \A p \in Threads :
        /\ th[p].pc = "set_order_lock"
           => \A i \in DOMAIN th[p].order.data.inputs :
                 MutableInput(th[p].order, db.objects, i)
                 => OwnedBySenderOrAnother(th[p].order, db.objects, i)
        /\ ( /\ Done(p, "handle_order")
             /\ check_signature(th[p].order)
             /\ ShapeError(th[p].order) = None
             /\ \E i \in DOMAIN th[p].order.data.inputs :
                   /\ MutableInput(th[p].order, db.objects, i)
                   /\ ~OwnedBySenderOrAnother(th[p].order, db.objects, i) )
           => RefusedAsIncorrectSigner(p)

\* The same with an object that is owned by its own address counted as
\* owned by an input.
C28_OwnerOrInput ==
    \A p \in Threads :
        /\ th[p].pc = "set_order_lock"
           => \A i \in DOMAIN th[p].order.data.inputs :
                 MutableInput(th[p].order, db.objects, i)
                 => OwnedBySenderOrInput(th[p].order, db.objects, i)
        /\ ( /\ Done(p, "handle_order")
             /\ check_signature(th[p].order)
             /\ ShapeError(th[p].order) = None
             /\ \E i \in DOMAIN th[p].order.data.inputs :
                   /\ MutableInput(th[p].order, db.objects, i)
                   /\ ~OwnedBySenderOrInput(th[p].order, db.objects, i) )
           => RefusedAsIncorrectSigner(p)

\* The i-th input of the order is a Move object that the table holds as
\* read-only, at the version and with the digest the order declares.
ReadOnlyInput(order, objects, i) ==
    LET object_kind == order.data.inputs[i]
        object == Get(objects, kind_object_id(object_kind))
    IN  /\ object_kind.tag = "MoveObject"
        /\ object # None
        /\ is_read_only(object)
        /\ to_object_reference(object) = object_kind.ref

\* The i-th input of the order is its gas payment.
PaysGas(order, i) ==
    kind_object_id(order.data.inputs[i]) = order.data.gas_payment[1]

\* handle_order has received a correctly signed order with inputs, no two
\* of the same object, and check_locks has returned.
CheckedInputs(p) ==
    /\ th[p].pc # "idle"
    /\ th[p].op = "handle_order"
    /\ check_signature(th[p].order)
    /\ ShapeError(th[p].order) = None

\* check_locks has returned the aggregate error to handle_order.
RefusedInputs(p) ==
    /\ th[p].pc = "done"
    /\ ~th[p].ret.ok
    /\ th[p].ret.error.tag = "LockErrors"

\* C29: a read-only object input at its current reference passes the check
\* whoever owns it and whoever sends the order, unless it pays the gas, and
\* then its error is InsufficientGas: when every other input of an order
\* is good, check_locks accepts the order if no read-only input pays the
\* gas, and returns exactly the error InsufficientGas if one does.
C29_ReadOnlyInputs ==
    \A p \in Threads :
        CheckedInputs(p)
        => LET order == th[p].order
               read_only == {i \in DOMAIN order.data.inputs :
                                ReadOnlyInput(order, db.objects, i)}
           IN  (\A i \in DOMAIN order.data.inputs \ read_only :
                    InputError(order, db.objects, i) = None)
               => IF \E i \in read_only : PaysGas(order, i)
                  THEN /\ RefusedInputs(p)
                       /\ th[p].ret.error.errors = <<Error("InsufficientGas")>>
                  ELSE ~RefusedInputs(p)

\* handle_order has accepted alice's order with the read-only object R of
\* bob among its inputs.
C29_Witness ==
    \E p \in Threads :
        /\ CheckedInputs(p)
        /\ th[p].pc = "set_order_lock"
        /\ \E i \in DOMAIN th[p].order.data.inputs :
              /\ ReadOnlyInput(th[p].order, db.objects, i)
              /\ db.objects[kind_object_id(th[p].order.data.inputs[i])].owner
                    # th[p].order.data.sender

\* The references of the inputs of the order that are mutable Move objects.
MutableInputRefs(order, objects) ==
    {order.data.inputs[i].ref :
        i \in {j \in DOMAIN order.data.inputs : MutableInput(order, objects, j)}}

\* The references whose lock slot holds the order as signed by this
\* authority.
LockedTo(store, order) ==
    {r \in DOMAIN store.order_lock :
        store.order_lock[r] = SignedOrder_new(order, AuthorityName)}

\* handle_order has set the locks of its order.
LocksSet(p) ==
    /\ th[p].pc # "idle"
    /\ th[p].op = "handle_order"
    /\ \/ th[p].pc = "make_order_info"
       \/ th[p].pc = "done" /\ th[p].ret.ok

\* C30: handle_order hands to set_order_lock exactly the references of
\* the inputs that are mutable Move objects, and when it succeeds the
\* slots locked to its signed order are exactly these; the slot of the
\* current reference of a package or of a read-only object is never locked.
C30_LocksMutableInputs ==
    /\ \A p \in Threads :
          /\ th[p].pc = "set_order_lock"
             => {th[p].mutable_objects[i] : i \in DOMAIN th[p].mutable_objects}
                   = MutableInputRefs(th[p].order, db.objects)
          /\ LocksSet(p)
             => LockedTo(db, th[p].order) = MutableInputRefs(th[p].order, db.objects)
    /\ \A id \in Stored(db, DOMAIN db.objects) :
          is_read_only(db.objects[id])
          => Get(db.order_lock, to_object_reference(db.objects[id])) = None

\* handle_order has locked the objects A and B and the coin G for a call
\* that also names the package P.
C30_Witness ==
    \E p \in Threads :
        /\ LocksSet(p)
        /\ \E i \in DOMAIN th[p].order.data.inputs :
              th[p].order.data.inputs[i].tag = "MovePackage"
        /\ Cardinality(LockedTo(db, th[p].order)) = 3

\* The error that the declared reference of the i-th input earns against
\* the stored object: a package input that resolves to an object that is
\* no package, a declared version that is not the stored one, a declared
\* digest that is not the stored one at the stored version; None for any
\* other input.
DeclaredError(order, objects, i) ==
    LET object_kind == order.data.inputs[i]
        object == Get(objects, kind_object_id(object_kind))
    IN  IF object = None THEN None
        ELSE IF object_kind.tag = "MovePackage"
        THEN IF object.is_package THEN None
             ELSE ObjectError("MoveObjectAsPackage", object_kind.id)
        ELSE IF object.version # object_kind.ref[2]
        THEN [tag |-> "UnexpectedSequenceNumber", object_id |-> object_kind.ref[1],
              expected_sequence |-> object.version]
        ELSE IF digest(object) # object_kind.ref[3]
        THEN [tag |-> "InvalidObjectDigest", object_id |-> object_kind.ref[1],
              expected_digest |-> object_kind.ref[3]]
        ELSE None

\* The positions of the errors that name the object id.
ErrorsAbout(errors, id) ==
    {k \in DOMAIN errors : "object_id" \in DOMAIN errors[k] /\ errors[k].object_id = id}

InfoStep(p) ==
    /\ th'[p].pc # th[p].pc
    /\ th'[p].pc # "idle"
    /\ th'[p].op = "handle_object_info_request"

\* The object that the answer of handler p carries was the latest stored
\* version when the request read it.
C33_ReadsLatest ==
    \A p \in Threads :
        (InfoStep(p) /\ th'[p].pc = "get_order_lock")
        => th'[p].object = Get(db.objects, th'[p].request.object_id)

\* The answer of handler p: the object and its lock, or none when the store
\* has no object for the id.
C33_Answer ==
    \A p \in Threads :
        (InfoStep(p) /\ th'[p].pc = "done" /\ th'[p].ret.ok)
        => LET response == th'[p].ret.value
               stored == Get(db.objects, th'[p].request.object_id)
               object == IF th[p].pc = "get_order_lock" THEN th[p].object ELSE stored
           IN  /\ (response.object_and_lock = None) = (object = None)
               /\ object # None
                  => /\ response.object_and_lock.object = object
                     /\ response.object_and_lock.lock
                           = IF is_read_only(object) THEN None
                             ELSE Get(db.order_lock, to_object_reference(object))
               /\ (/\ response.requested_object_reference # None
                   /\ db.parent_sync[response.requested_object_reference] = GENESIS)
                  => response.parent_certificate = None

\* The request changes nothing in the store.
C33_ReadOnlyRequest ==
    \A p \in Threads : InfoStep(p) => db' = db /\ commits' = commits

\* C33: handle_object_info_request returns the latest stored version of
\* the object with the lock of the reference of that version: no lock for
\* a read-only object or an empty slot, the signed order for a locked
\* slot; the parent certificate is None when the transaction of the parent
\* entry is the genesis sentinel; and the request modifies no state.
C33_ObjectAndLock ==
    [][C33_ReadsLatest /\ C33_Answer /\ C33_ReadOnlyRequest]_vars

\* A request for the latest version of A has returned the object with the
\* signed order that holds its lock, and no parent certificate.
C33_Witness ==
    \E p \in Threads :
        /\ Done(p, "handle_object_info_request")
        /\ th[p].ret.ok
        /\ th[p].ret.value.object_and_lock # None
        /\ th[p].ret.value.object_and_lock.lock # None
        /\ th[p].ret.value.object_and_lock.lock.order \in SeenOrders(db)
        /\ th[p].ret.value.parent_certificate = None

\* The commit of handler p leaves an empty lock slot at the new reference
\* of every mutable object it writes.
C34_CommitStep ==
    \A p \in Threads :
        (th[p].pc = "update_state" /\ th'[p].pc = "done")
        => \A id \in DOMAIN written(th[p].temp) :
              LET object == written(th[p].temp)[id]
              IN  ~is_read_only(object)
                  => /\ to_object_reference(object) \in DOMAIN db'.order_lock
                     /\ db'.order_lock[to_object_reference(object)] = None

\* The current reference of every mutable stored object has a lock slot,
\* and handle_order never finds the slot of an input absent.
C34_SlotOfCurrentRef ==
    /\ \A id \in Stored(db, DOMAIN db.objects) :
          ~is_read_only(db.objects[id]) => CurrentRef(db, id) \in DOMAIN db.order_lock
    /\ \A p \in Threads :
          (Done(p, "handle_order") /\ ~th[p].ret.ok)
          => th[p].ret.error.tag # "OrderLockDoesNotExist"

\* C34: after a transaction commits, every mutable object it wrote has an
\* initialized, empty lock slot at its new reference, so that an order on
\* the new version can be locked; in every reachable state the current
\* reference of every mutable stored object has a lock slot.
C34_LockSlotsCreated ==
    /\ []C34_SlotOfCurrentRef
    /\ [][C34_CommitStep]_vars

\* C35: each mutable reference is consumed by at most one committed
\* transaction: of two valid certificates with different digests that take
\* the same reference as a mutable input at most one is committed, so two
\* committed transactions name no common Move object reference among
\* their inputs.
C35_ConsumedOnce ==
    \A d1, d2 \in DOMAIN commits :
        d1 # d2
        => MoveObjectRefs(db.certificates[d1].order)
              \cap MoveObjectRefs(db.certificates[d2].order) = {}

\* The i-th input of the order is owned by the sender, or by a mutable
\* input that is itself owned in this way through at most n more objects.
RECURSIVE OwnedThroughChain(_, _, _, _)
OwnedThroughChain(order, objects, i, n) ==
    LET owner == objects[kind_object_id(order.data.inputs[i])].owner
    IN  \/ owner = order.data.sender
        \/ /\ n > 0
           /\ \E j \in DOMAIN order.data.inputs :
                 /\ MutableInput(order, objects, j)
                 /\ kind_object_id(order.data.inputs[j]) = owner
                 /\ OwnedThroughChain(order, objects, j, n - 1)

\* C36: when handle_order succeeds, every mutable input of the order is
\* owned by the sender, directly or through a chain of mutable inputs that
\* ends at an object of the sender; an object that is owned by its own
\* address is not locked for a sender that does not own it.
C36_OwnershipChain ==
    \A p \in Threads :
        LocksSet(p)
        => \A i \in DOMAIN th[p].order.data.inputs :
              MutableInput(th[p].order, db.objects, i)
              => OwnedThroughChain(th[p].order, db.objects, i,
                                   Len(th[p].order.data.inputs))

\* The order of handler p has inputs, no two of the same object, and each
\* of them passes its check against the stored objects.
InputsMatch(p) ==
    /\ ShapeError(th[p].order) = None
    /\ InputErrors(th[p].order, db.objects, Len(th[p].order.data.inputs)) = << >>

\* handle_confirmation_order goes from the check of the inputs to the
\* execution whenever the inputs match the store, whatever the lock table
\* holds, and a call that has executed goes on to sign and to commit
\* (a step to idle is a crash of the process, which loses the call).
C37_ConfirmationStep ==
    \A p \in Threads :
        /\ (/\ th[p].pc = "check_locks"
            /\ th'[p].pc \notin {"check_locks", "idle"}
            /\ InputsMatch(p))
           => LET inputs == [i \in DOMAIN th[p].order.data.inputs |->
                               db.objects[kind_object_id(th[p].order.data.inputs[i])]]
                  executed == execute_order(th[p].order, inputs, order_digest(th[p].order))
              IN  IF executed.result.ok
                  THEN th'[p].pc = "get_unwrapped_object_ids"
                  ELSE th'[p].pc = "done" /\ th'[p].ret = executed.result
        /\ (th[p].pc = "get_unwrapped_object_ids"
            /\ th'[p].pc \notin {"get_unwrapped_object_ids", "idle"})
           => th'[p].pc = "update_state"
        /\ (th[p].pc = "update_state" /\ th'[p].pc \notin {"update_state", "idle"})
           => /\ th'[p].pc = "done"
              /\ th'[p].ret.ok
              /\ order_digest(th[p].order) \in DOMAIN db'.certificates
              /\ order_digest(th[p].order) \in DOMAIN commits'

\* C37: handle_confirmation_order does not read the lock table: a valid
\* certificate whose inputs match the store executes and commits, whether
\* or not handle_order ever ran for its order and whatever order holds the
\* lock slots of its inputs; the lock table is as it was when the inputs
\* have been checked and executed.
C37_IgnoresLocks ==
    [][C37_ConfirmationStep]_vars

\* A transaction has been committed for which handle_order never ran,
\* while the lock slot of one of its inputs is held by a different order.
C37_Witness ==
    \E d \in DOMAIN commits :
        /\ d \notin DOMAIN db.signed_orders
        /\ \E r \in MoveObjectRefs(db.certificates[d].order) :
              /\ Get(db.order_lock, r) # None
              /\ order_digest(db.order_lock[r].order) # d

(***************************************************************************)
(* The header getter (narwhal/primary/src/getter.rs).                      *)
(* fetch_headers_helper asks the other primaries of the committee for      *)
(* headers, one more primary after each interval or failure.  Time is      *)
(* counted in seconds and passes in steps of one interval; a deadline      *)
(* fires at or after its time, when the task is polled.                    *)
(***************************************************************************)
PARALLEL_FETCH_REQUEST_INTERVAL_SECS == 5

PARALLEL_FETCH_REQUEST_ADDITIONAL_TIMEOUT == 15

\* The committees: the other primaries of the authority that fetches.
OtherPrimaries == 1..MaxPeers

\* peers.shuffle: the orders in which a set of primaries can be left.
Shuffles(others) ==
    {order \in [1..Cardinality(others) -> others] :
        \A i, j \in DOMAIN order : i # j => order[i] # order[j]}

\* What client.fetch_headers(request).await can give for a peer: an error
\* (the peer fails, or the request reaches its timeout of two intervals),
\* or a response that carries some headers or none.
FetchResults(peer) ==
    {[peer |-> peer, ok |-> FALSE, headers |-> 0],
     [peer |-> peer, ok |-> TRUE, headers |-> 0],
     [peer |-> peer, ok |-> TRUE, headers |-> 1]}

\* The time at which a timer set now for the given duration fires.
sleep(duration) == fetch.now + duration

\* fetch_headers_helper, lines 146-160: the peers are the other primaries,
\* shuffled; the overall timeout is one interval per peer and 15 seconds.
Fetch_Start(others) ==
    /\ fetch.pc = "idle"
    /\ \E peers \in Shuffles(others) :
           fetch' = [pc |-> "pop",
                     peers |-> peers,
                     fut |-> {},
                     interval |-> 0,
                     now |-> 0,
                     fetch_timeout |-> PARALLEL_FETCH_REQUEST_INTERVAL_SECS * Len(peers)
                                       + PARALLEL_FETCH_REQUEST_ADDITIONAL_TIMEOUT,
                     sent |-> << >>,
                     received |-> << >>,
                     ret |-> None]
    /\ UNCHANGED <<db, th, commits, calls, bounds>>

\* A loop that reads the last peer and leaves it in the list.
Fetch_Pop_KeepingPeer ==
    /\ fetch.pc = "pop"
    /\ IF fetch.peers # << >>
       THEN LET peer == fetch.peers[Len(fetch.peers)]
            IN  fetch' = [fetch EXCEPT !.pc = "select",
                                       !.fut = fetch.fut \cup {peer},
                                       !.sent = Append(fetch.sent, peer),
                                       !.interval = sleep(PARALLEL_FETCH_REQUEST_INTERVAL_SECS)]
       ELSE fetch' = [fetch EXCEPT !.pc = "select",
                                   !.interval = sleep(PARALLEL_FETCH_REQUEST_INTERVAL_SECS)]
    /\ UNCHANGED <<db, th, commits, calls, bounds>>

\* Lines 163-180: the head of the loop.  If a peer is left it is taken off
\* the end of the list and a request to it joins the requests in flight;
\* then the interval timer is set anew.
Fetch_Pop ==
    /\ fetch.pc = "pop"
    /\ IF fetch.peers # << >>
       THEN LET peer == fetch.peers[Len(fetch.peers)]
            IN  fetch' = [fetch EXCEPT !.pc = "select",
                                       !.peers = SubSeq(fetch.peers, 1, Len(fetch.peers) - 1),
                                       !.fut = fetch.fut \cup {peer},
                                       !.sent = Append(fetch.sent, peer),
                                       !.interval = sleep(PARALLEL_FETCH_REQUEST_INTERVAL_SECS)]
       ELSE fetch' = [fetch EXCEPT !.pc = "select",
                                   !.interval = sleep(PARALLEL_FETCH_REQUEST_INTERVAL_SECS)]
    /\ UNCHANGED <<db, th, commits, calls, bounds>>

\* Lines 182-194: a request in flight completes.  A response with headers
\* is returned; an empty response or an error goes back to the head of the
\* loop at once.
Fetch_Response ==
    /\ fetch.pc = "select"
    /\ \E peer \in fetch.fut : \E res \in FetchResults(peer) :
           LET next == [fetch EXCEPT !.fut = fetch.fut \ {peer},
                                     !.received = Append(fetch.received, res)]
           IN  IF res.ok /\ res.headers # 0
               THEN fetch' = [next EXCEPT !.pc = "done", !.ret = Some(res)]
               ELSE fetch' = [next EXCEPT !.pc = "pop"]
    /\ UNCHANGED <<db, th, commits, calls, bounds>>

\* Lines 195-201: no request is in flight (fut.next() gives None): wait one
\* interval, then return None.
Fetch_NoPeer ==
    /\ fetch.pc = "select"
    /\ fetch.fut = {}
    /\ fetch' = [fetch EXCEPT !.pc = "sleep",
                              !.interval = sleep(PARALLEL_FETCH_REQUEST_INTERVAL_SECS)]
    /\ UNCHANGED <<db, th, commits, calls, bounds>>

Fetch_ReturnNone ==
    /\ fetch.pc = "sleep"
    /\ fetch.now >= fetch.interval
    /\ fetch' = [fetch EXCEPT !.pc = "done", !.ret = None]
    /\ UNCHANGED <<db, th, commits, calls, bounds>>

\* Lines 203-206: the interval passed without a response: back to the head
\* of the loop.
Fetch_Interval ==
    /\ fetch.pc = "select"
    /\ fetch.now >= fetch.interval
    /\ fetch' = [fetch EXCEPT !.pc = "pop"]
    /\ UNCHANGED <<db, th, commits, calls, bounds>>

\* Lines 210-216: the overall timeout drops the loop, wherever it is, and
\* the requests in flight; the function returns None.
Fetch_Timeout ==
    /\ fetch.pc \in {"pop", "select", "sleep"}
    /\ fetch.now >= fetch.fetch_timeout
    /\ fetch' = [fetch EXCEPT !.pc = "done", !.ret = None, !.fut = {}]
    /\ UNCHANGED <<db, th, commits, calls, bounds>>

\* Time passes while the function waits (in select! or in the last sleep).
Fetch_Tick ==
    /\ fetch.pc \in {"select", "sleep"}
    /\ fetch.now < fetch.fetch_timeout
    /\ fetch' = [fetch EXCEPT !.now = fetch.now + PARALLEL_FETCH_REQUEST_INTERVAL_SECS]
    /\ UNCHANGED <<db, th, commits, calls, bounds>>

\* One call of fetch_headers_helper, for every committee and every shuffle.
NextFetch ==
    \/ \E others \in SUBSET OtherPrimaries : Fetch_Start(others)
    \/ Fetch_Pop
    \/ Fetch_Response
    \/ Fetch_NoPeer
    \/ Fetch_ReturnNone
    \/ Fetch_Interval
    \/ Fetch_Timeout
    \/ Fetch_Tick

SpecFetch == Init /\ [][NextFetch]_vars

\* The call is polled until it returns.
SpecFetchFair == SpecFetch /\ WF_vars(NextFetch)

\* A response in the sense of the RPC: the request did not fail.
Successful(res) == res.ok

\* A response that carries headers.
WithHeaders(res) == res.ok /\ res.headers # 0

\* No primary is asked twice.
SentOnce ==
    \A i, j \in DOMAIN fetch.sent : i # j => fetch.sent[i] # fetch.sent[j]

\* The responses that count (by the given test) end the call: the first one
\* received is the last one received and it is what the call returns, and a
\* call that returns None received none, or ran into the overall timeout.
EndsAtFirst(counts(_)) ==
    /\ \A i \in DOMAIN fetch.received :
           counts(fetch.received[i])
           => /\ i = Len(fetch.received)
              /\ fetch.pc = "done"
              /\ fetch.ret = Some(fetch.received[i])
    /\ (fetch.pc = "done" /\ fetch.ret = None)
       => \/ \A i \in DOMAIN fetch.received : ~counts(fetch.received[i])
          \/ fetch.now >= fetch.fetch_timeout

\* The steps of the loop: a request goes only to a primary not asked before,
\* from the head of the loop; the loop comes back to its head from select!
\* either when the interval has passed with no response or at once with a
\* response that does not end the call.
ContactStep ==
    /\ fetch.sent' # fetch.sent
       => /\ fetch.pc = "pop"
          /\ \E peer \in OtherPrimaries :
                 /\ fetch.sent' = Append(fetch.sent, peer)
                 /\ \A i \in DOMAIN fetch.sent : fetch.sent[i] # peer
    /\ (fetch.pc = "pop" /\ fetch.pc' = "select" /\ fetch.peers # << >>)
       => fetch.sent' # fetch.sent
    /\ (fetch.pc = "select" /\ fetch.pc' = "pop")
       => \/ fetch.received' = fetch.received /\ fetch.now >= fetch.interval
          \/ /\ Len(fetch.received') = Len(fetch.received) + 1
             /\ ~WithHeaders(fetch.received'[Len(fetch.received')])
    /\ (/\ fetch.received' # fetch.received
        /\ ~WithHeaders(fetch.received'[Len(fetch.received')]))
       => fetch.pc' = "pop" /\ fetch.now' = fetch.now

u64 == 0..U64_MAX

\* Option<u64>.
OptionU64 == {None} \cup {Some(n) : n \in u64}

saturating_add(a, b) == IF a + b > U64_MAX THEN U64_MAX ELSE a + b

saturating_sub(a, b) == IF a < b THEN 0 ELSE a - b

\* `x as u64` of a bool.
bool_as_u64(b) == IF b THEN 1 ELSE 0

\* Lines 271-278: the largest and the smallest of the values that are set.
flatten(xs) == {xs[i].some : i \in {j \in DOMAIN xs : xs[j] # None}}

max_option(xs) ==
    IF flatten(xs) = {} THEN None
    ELSE Some(CHOOSE m \in flatten(xs) : \A n \in flatten(xs) : n <= m)

min_option(xs) ==
    IF flatten(xs) = {} THEN None
    ELSE Some(CHOOSE m \in flatten(xs) : \A n \in flatten(xs) : m <= n)

\* u64::max and u64::min.
u64_max(a, b) == IF a >= b THEN a ELSE b

u64_min(a, b) == IF a <= b THEN a ELSE b

\* Lines 133-139.
tx_lo(self) == max_option(<<self.after, Some(self.lo)>>).some

tx_hi(self) == min_option(<<self.before, Some(self.hi)>>).some

\* Lines 148-162.
scan_lo(self) ==
    LET adjusted_lo == tx_lo(self)
    IN  IF self.is_from_front THEN adjusted_lo
        ELSE IF self.scan_limit # None
        THEN u64_max(adjusted_lo,
                     saturating_add(saturating_sub(tx_hi(self), self.scan_limit.some),
                                    bool_as_u64(self.before = None)))
        ELSE adjusted_lo

\* Lines 171-185.
scan_hi(self) ==
    LET adjusted_hi == tx_hi(self)
    IN  IF ~self.is_from_front THEN adjusted_hi
        ELSE IF self.scan_limit # None
        THEN u64_min(adjusted_hi,
                     saturating_sub(saturating_add(tx_lo(self), self.scan_limit.some),
                                    bool_as_u64(self.after = None)))
        ELSE adjusted_hi

\* TxBounds::query, lines 114-131, from the range lo..hi read from the
\* checkpoints table and the cursors of the page: None when the after
\* cursor is at or above hi or the before cursor is at or below lo.
TxBounds_query(lo, hi, after, before, scan_limit, is_from_front) ==
    IF \/ after # None /\ after.some >= hi
       \/ before # None /\ before.some <= lo
    THEN None
    ELSE Some([lo |-> lo, hi |-> hi, after |-> after, before |-> before,
               scan_limit |-> scan_limit, is_from_front |-> is_from_front])

\* A query is made.
Query ==
    /\ bounds.pc = "idle"
    /\ \E lo, hi \in u64 : \E after, before, scan_limit \in OptionU64 :
       \E is_from_front \in BOOLEAN :
           bounds' = [pc |-> "query",
                      tx_bounds |-> TxBounds_query(lo, hi, after, before,
                                                   scan_limit, is_from_front)]
    /\ UNCHANGED <<db, th, commits, calls, fetch>>

\* No range: the lookup gives no result.
NoBounds ==
    /\ bounds.pc = "query"
    /\ bounds.tx_bounds = None
    /\ bounds' = [pc |-> "empty", tx_bounds |-> None]
    /\ UNCHANGED <<db, th, commits, calls, fetch>>

\* The range to scan is computed (TransactionBlock::paginate filters on
\* scan_lo() <= tx_sequence_number <= scan_hi()).
Scan ==
    /\ bounds.pc = "query"
    /\ bounds.tx_bounds # None
    /\ bounds' = [pc |-> "scan",
                  tx_bounds |-> bounds.tx_bounds,
                  scan_lo |-> scan_lo(bounds.tx_bounds.some),
                  scan_hi |-> scan_hi(bounds.tx_bounds.some)]
    /\ UNCHANGED <<db, th, commits, calls, fetch>>

NextBounds ==
    \/ Query
    \/ NoBounds
    \/ Scan

SpecBounds == Init /\ [][NextBounds]_vars

\* The tx_sequence_numbers of the inclusive window scan_lo()..scan_hi().
ScanWindow == {n \in u64 : bounds.scan_lo <= n /\ n <= bounds.scan_hi}

\* The window lies in lo..hi and within the cursors.
WindowInside(self) ==
    /\ ScanWindow \subseteq self.lo..self.hi
    /\ \A n \in ScanWindow :
           /\ self.after # None => self.after.some <= n
           /\ self.before # None => n <= self.before.some

\* The part of the window beyond the starting cursor: after `after` from
\* the front, before `before` from the back, all of it without that cursor.
BeyondCursor(self) ==
    IF self.is_from_front
    THEN IF self.after # None THEN {n \in ScanWindow : n > self.after.some} ELSE ScanWindow
    ELSE IF self.before # None THEN {n \in ScanWindow : n < self.before.some} ELSE ScanWindow

\* A computed window of bounds with lo <= hi and a scan limit.
ScanLimited ==
    /\ bounds.pc = "scan"
    /\ bounds.tx_bounds.some.lo <= bounds.tx_bounds.some.hi
    /\ bounds.tx_bounds.some.scan_limit # None

\* C39: with lo <= hi and a scan limit L, the window scan_lo()..scan_hi()
\* lies inside lo..hi and inside the cursors, and holds at most L
\* tx_sequence_numbers beyond the starting cursor (at most L in all without
\* that cursor), for all bounds that TxBounds::query accepts.
C39_ScanWindow ==
    ScanLimited
    => /\ WindowInside(bounds.tx_bounds.some)
       /\ Cardinality(BeyondCursor(bounds.tx_bounds.some))
              <= bounds.tx_bounds.some.scan_limit.some

\* The window is inside lo..hi and the cursors whatever the limit.
C39_WindowInside == ScanLimited => WindowInside(bounds.tx_bounds.some)

\* The starting cursor, when given, is a tx_sequence_number of lo..hi.
StartingCursorInRange(self) ==
    IF self.is_from_front
    THEN self.after # None => self.lo <= self.after.some
    ELSE self.before # None => self.before.some <= self.hi

\* The limit holds for a positive limit and a starting cursor in lo..hi.
C39_LimitWithCursorInRange ==
    (/\ ScanLimited
     /\ bounds.tx_bounds.some.scan_limit.some > 0
     /\ StartingCursorInRange(bounds.tx_bounds.some))
    => Cardinality(BeyondCursor(bounds.tx_bounds.some))
           <= bounds.tx_bounds.some.scan_limit.some
====
